---- MODULE Spec2Model ----
(***************************************************************************)
(* A model of the semantic memory store of pluresLM-vscode:                *)
(*   - MemoryDB (src/src/tools.ts, second half): the memories and          *)
(*     memory_edges tables, dedup-on-write, linear-scan retrieval, the     *)
(*     three delete operations, the raw import path;                       *)
(*   - the embedding chain (src/unnamed/part_001): DualEmbeddings and the  *)
(*     lazily initialised TransformersEmbeddings;                          *)
(*   - the part of MemoryProvider (src/src/memory-provider.ts) that        *)
(*     builds the chain and closes the store.                              *)
(*                                                                         *)
(* Numbers.  Embedding components are small integers, so every sum of the  *)
(* cosine loop is exact in a double.  A score is kept as the pair          *)
(* (dot, nn) that denotes dot / sqrt(nn); scores are compared exactly by   *)
(* cross-multiplying the squares.  Rounding of the last bit of the         *)
(* floating-point division is not modelled.                                *)
(***************************************************************************)
EXTENDS Integers, Sequences, FiniteSets, TLC

(***************************************************************************)
(* Bounds of the model.                                                    *)
(***************************************************************************)
MaxRows == 2
MaxEdges == 2
\* DualEmbeddings objects the orchestrator constructs, model loads started.
MaxChains == 2
MaxLoads == 2

(***************************************************************************)
(* Program constants.                                                      *)
(***************************************************************************)
DefaultDedupeMilli == 950
DefaultMinScoreMilli == 300
DefaultDeleteMilli == 800
DeleteByQueryLimit == 10

\* SQL NULL in the embedding column.
NULL == [null |-> TRUE]

\* An optional argument: undefined, or a value.
Absent == [some |-> FALSE]
Some(v) == [some |-> TRUE, v |-> v]

(***************************************************************************)
(* Scores.                                                                 *)
(***************************************************************************)
Min(a, b) == IF a <= b THEN a ELSE b

ZeroScore == [dot |-> 0, nn |-> 1]

\* A threshold given in thousandths (0.95 is Milli(950)).
Milli(t) == [dot |-> t, nn |-> 1000 * 1000]

RECURSIVE SumTo(_, _)
SumTo(f, n) == IF n = 0 THEN 0 ELSE f[n] + SumTo(f, n - 1)

\* The quotient without the test of the denominator.
cosineSimilarityUnguarded(a, b) ==
    LET len   == Min(Len(a), Len(b))
        dot   == SumTo([i \in 1..len |-> a[i] * b[i]], len)
        normA == SumTo([i \in 1..len |-> a[i] * a[i]], len)
        normB == SumTo([i \in 1..len |-> b[i] * b[i]], len)
    IN  [dot |-> dot, nn |-> normA * normB]

\* cosineSimilarity: over the first min(len) components; 0 when denom is 0.
cosineSimilarity(a, b) ==
    LET len   == Min(Len(a), Len(b))
        dot   == SumTo([i \in 1..len |-> a[i] * b[i]], len)
        normA == SumTo([i \in 1..len |-> a[i] * a[i]], len)
        normB == SumTo([i \in 1..len |-> b[i] * b[i]], len)
    IN  IF normA * normB = 0 THEN ZeroScore
        ELSE [dot |-> dot, nn |-> normA * normB]

\* s >= t as numbers: s.dot / sqrt(s.nn) >= t.dot / sqrt(t.nn).
ScoreGE(s, t) ==
    CASE s.dot >= 0 /\ t.dot < 0  -> TRUE
      [] s.dot < 0  /\ t.dot >= 0 -> FALSE
      [] s.dot >= 0 /\ t.dot >= 0 -> s.dot * s.dot * t.nn >= t.dot * t.dot * s.nn
      [] OTHER                    -> s.dot * s.dot * t.nn <= t.dot * t.dot * s.nn

(***************************************************************************)
(* Identifiers.  An id is kept in the state by a short name; IdText gives  *)
(* the characters the name stands for, on which the pattern of delete is   *)
(* evaluated.                                                              *)
(***************************************************************************)
HexDigits == {"0", "1", "2", "3", "4", "5", "6", "7", "8", "9",
              "a", "b", "c", "d", "e", "f", "A", "B", "C", "D", "E", "F"}

Rep(ch, n) == [i \in 1..n |-> ch]

Grouped(ch) ==
    Rep(ch, 8) \o <<"-">> \o Rep(ch, 4) \o <<"-">> \o Rep(ch, 4) \o <<"-">>
        \o Rep(ch, 4) \o <<"-">> \o Rep(ch, 12)

UUIDSeq == <<"u1", "u2", "u3", "u4">>
UUIDNames == {UUIDSeq[k] : k \in 1..Len(UUIDSeq)}
BadNames == {"note-1", "short", "nodash", "long"}
IdNames == UUIDNames \cup BadNames

IdText(id) ==
    CASE id = "u1"     -> Grouped("1")
      [] id = "u2"     -> Grouped("a")
      [] id = "u3"     -> Grouped("F")
      [] id = "u4"     -> Grouped("0")
      [] id = "u5"     -> Grouped("2")
      [] id = "u6"     -> Grouped("3")
      [] id = "u7"     -> Grouped("4")
      [] id = "u8"     -> Grouped("b")
      [] id = "u9"     -> Grouped("c")
      [] id = "u10"    -> Grouped("D")
      [] id = "u11"    -> Grouped("e")
      [] id = "note-1" -> Grouped("g")
      [] id = "short"  -> Rep("a", 8)
      [] id = "nodash" -> Rep("a", 36)
      [] id = "long"   -> Grouped("a") \o <<"0">>

\* The pattern without its end anchor: a longer text with a matching prefix passes.
IsUUIDShapeUnanchored(s) ==
    /\ Len(s) >= 36
    /\ \A i \in 1..36 :
          IF i \in {9, 14, 19, 24} THEN s[i] = "-" ELSE s[i] \in HexDigits

\* /^[0-9a-f]{8}-[0-9a-f]{4}-[0-9a-f]{4}-[0-9a-f]{4}-[0-9a-f]{12}$/i
IsUUIDShape(s) ==
    /\ Len(s) = 36
    /\ \A i \in 1..36 :
          IF i \in {9, 14, 19, 24} THEN s[i] = "-" ELSE s[i] \in HexDigits

(***************************************************************************)
(* Embedding blobs.                                                        *)
(***************************************************************************)
encodeEmbedding(vec) == [byteLength |-> 8 * Len(vec), f64 |-> vec]

decodeEmbedding(blob) == blob.f64

\* A blob is taken as decodable whatever its length.
DecodeNeverThrows(blob) == FALSE

\* `new Float64Array(ab)` throws a RangeError when the byte length of the
\* blob is not a multiple of 8.
DecodeThrows(blob) == blob.byteLength % 8 # 0

(***************************************************************************)
(* State.                                                                  *)
(*   memories  the memories table, in rowid order (the order of a scan)    *)
(*   edges     the memory_edges table; the edge id is a fresh UUID on      *)
(*             every insert and is not kept                                *)
(*   now       Date.now()                                                  *)
(*   pending   the async MemoryDB calls that have scanned and are          *)
(*             suspended at their await, one per caller                    *)
(*   last      the operation that finished last, with what it returned     *)
(*   handle    the MemoryDB object: its closed flag and the state of its   *)
(*             connection (open, closed, or invalid: unusable but not      *)
(*             closed by the program)                                      *)
(*   profile   the rows of the profile table                               *)
(***************************************************************************)
VARIABLES memories, edges, now, pending, last, handle, profile

dbVars == <<memories, edges, now, pending, last, handle, profile>>

(***************************************************************************)
(* State of the orchestrator and the embedding chain.                      *)
(*   provider  MemoryProvider: initialized, the state of its MemoryDB      *)
(*             handle, and which DualEmbeddings this.embeddings is         *)
(*   chains    the DualEmbeddings constructed so far, each with its own    *)
(*             TransformersEmbeddings (extractor, initPromise)             *)
(*   promises  the promises of the model loads started so far              *)
(*   calls     the embed call of each caller: where it is suspended, the   *)
(*             chain it runs on, the backends it has tried, its outcome    *)
(***************************************************************************)
VARIABLES provider, chains, promises, calls

embVars == <<provider, chains, promises, calls>>

vars ==
    <<memories, edges, now, pending, last, handle, profile,
      provider, chains, promises, calls>>

Callers == {"h1", "h2"}

Idle == [op |-> "idle"]

(***************************************************************************)
(* Inputs the operations are exercised with.                               *)
(***************************************************************************)
Vectors == {<<1, 0>>, <<4, 1>>, <<1, 1>>}

StoreArgs ==
    { [content |-> "tabs", source |-> Absent, tags |-> Absent,
       category |-> Absent, dedupeThreshold |-> Absent],
      [content |-> "use tabs", source |-> Some("vscode:chat"), tags |-> Some(<<"t">>),
       category |-> Some("preference"), dedupeThreshold |-> Some(Milli(800))] }

RawEntries ==
    { [content |-> "raw", created_at |-> 0, source |-> Some("sync"),
       tags |-> Absent, category |-> Absent] }

\* The values Date.now() takes.
Clock == {0, 1}

Sources == {"", "sync"}
QueryVectors == {<<1, 0>>, <<-4, -1>>}
Relations == {"related"}
Limits == {0, 1, 2}
MinScores == {Milli(DefaultMinScoreMilli), Milli(DefaultDeleteMilli)}
DeleteThresholds == {Milli(DefaultDeleteMilli)}

(***************************************************************************)
(* Tables.                                                                 *)
(***************************************************************************)
RowIds(m) == {m[i].id : i \in 1..Len(m)}

RowOf(m, id) == m[CHOOSE i \in 1..Len(m) : m[i].id = id]

count(m) == Len(m)

\* DELETE FROM memory_edges WHERE from_id = ? OR to_id = ?
DeleteEdgesOf(e, id) == SelectSeq(e, LAMBDA x : x.from_id # id /\ x.to_id # id)

\* ON DELETE CASCADE of both foreign keys, with foreign_keys = ON: the
\* edges whose endpoint is no longer a row go with it.
Cascade(e, m) ==
    SelectSeq(e, LAMBDA x : x.from_id \in RowIds(m) /\ x.to_id \in RowIds(m))

\* foreign_keys left off: nothing is checked.
ForeignKeysOff(m, fromId, toId) == TRUE

\* The foreign keys of memory_edges, checked on insert.
ForeignKeysHold(m, fromId, toId) == fromId \in RowIds(m) /\ toId \in RowIds(m)

(***************************************************************************)
(* vectorSearch.                                                           *)
(***************************************************************************)
\* results.push order: one result per row that has an embedding and
\* scores >= minScore, in scan order.
RECURSIVE Scan(_, _, _)
Scan(m, queryEmbedding, minScore) ==
    IF m = <<>> THEN <<>>
    ELSE LET row == Head(m)
             rest == Scan(Tail(m), queryEmbedding, minScore)
         IN  IF row.embedding = NULL THEN rest
             ELSE IF DecodeThrows(row.embedding) THEN rest
             ELSE LET stored == decodeEmbedding(row.embedding)
                      score == cosineSimilarity(queryEmbedding, stored)
                  IN  IF ScoreGE(score, minScore)
                      THEN <<[entry |-> [id |-> row.id,
                                         content |-> row.content,
                                         embedding |-> stored,
                                         created_at |-> row.created_at,
                                         source |-> row.source,
                                         tags |-> row.tags,
                                         category |-> row.category],
                              score |-> score]>> \o rest
                      ELSE rest

\* The comparator turned round, (a, b) => a.score - b.score: ascending.
InsertByScoreAscending(sorted, r) ==
    LET k == Cardinality({i \in 1..Len(sorted) : ScoreGE(r.score, sorted[i].score)})
    IN  SubSeq(sorted, 1, k) \o <<r>> \o SubSeq(sorted, k + 1, Len(sorted))

\* Array.prototype.sort with (a, b) => b.score - a.score: descending and
\* stable, so equal scores keep their scan order.
InsertByScore(sorted, r) ==
    LET k == Cardinality({i \in 1..Len(sorted) : ScoreGE(sorted[i].score, r.score)})
    IN  SubSeq(sorted, 1, k) \o <<r>> \o SubSeq(sorted, k + 1, Len(sorted))

RECURSIVE SortByScore(_)
SortByScore(rs) ==
    IF rs = <<>> THEN <<>>
    ELSE InsertByScore(SortByScore(SubSeq(rs, 1, Len(rs) - 1)), rs[Len(rs)])

\* slice(0, limit + 1): one entry too many.
Slice0OffByOne(rs, limit) == SubSeq(rs, 1, Min(limit + 1, Len(rs)))

\* Array.prototype.slice(0, limit)
Slice0(rs, limit) ==
    IF limit >= 0 THEN SubSeq(rs, 1, Min(limit, Len(rs)))
    ELSE SubSeq(rs, 1, Len(rs) + limit)

vectorSearch(m, queryEmbedding, limit, minScore) ==
    Slice0(SortByScore(Scan(m, queryEmbedding, minScore)), limit)

(***************************************************************************)
(* MemoryDB operations as functions of the tables.                         *)
(***************************************************************************)
\* v ?? d
Coalesce(v, d) == IF v.some THEN v.v ELSE d

\* UPDATE memories SET ... WHERE id = ?  (rows keep their place)
UpdateRow(m, id, new(_)) ==
    [i \in 1..Len(m) |-> IF m[i].id = id THEN new(m[i]) ELSE m[i]]

\* delete(id): the pattern test, then the edges, then the row.
delete(m, e, id) ==
    IF ~IsUUIDShape(IdText(id))
    THEN [memories |-> m, edges |-> e, threw |-> TRUE]
    ELSE LET e1 == DeleteEdgesOf(e, id)
             m1 == SelectSeq(m, LAMBDA r : r.id # id)
         IN  [memories |-> m1, edges |-> Cascade(e1, m1), threw |-> FALSE]

\* for (const match of matches) this.delete(match.entry.id)
RECURSIVE DeleteLoop(_, _, _)
DeleteLoop(m, e, matches) ==
    IF matches = <<>> THEN [memories |-> m, edges |-> e, threw |-> FALSE]
    ELSE LET r == delete(m, e, Head(matches).entry.id)
         IN  IF r.threw THEN r ELSE DeleteLoop(r.memories, r.edges, Tail(matches))

RECURSIVE DeleteEdgesOfAll(_, _)
DeleteEdgesOfAll(e, ids) ==
    IF ids = {} THEN e
    ELSE LET id == CHOOSE x \in ids : TRUE
         IN  DeleteEdgesOfAll(DeleteEdgesOf(e, id), ids \ {id})

\* A bulk delete that empties the table.
deleteBySourceAll(m, e, source) ==
    [memories |-> <<>>, edges |-> <<>>, changes |-> Len(m)]

deleteBySource(m, e, source) ==
    LET ids == {m[i].id : i \in {j \in 1..Len(m) : m[j].source = source}}
        e1  == DeleteEdgesOfAll(e, ids)
        m1  == SelectSeq(m, LAMBDA r : r.source # source)
    IN  [memories |-> m1, edges |-> Cascade(e1, m1), changes |-> Len(m) - Len(m1)]

\* The UPDATE with the default of the insert branch, opts.category ?? 'other'.
MergeRowDefaultCategory(row, content, embedding, t, opts, ex) ==
    [row EXCEPT !.content = content,
                !.embedding = encodeEmbedding(embedding),
                !.created_at = t,
                !.source = Coalesce(opts.source, ""),
                !.tags = Coalesce(opts.tags, <<>>),
                !.category = Coalesce(opts.category, "other")]

\* The UPDATE of the merge branch of store.
MergeRow(row, content, embedding, t, opts, ex) ==
    [row EXCEPT !.content = content,
                !.embedding = encodeEmbedding(embedding),
                !.created_at = t,
                !.source = Coalesce(opts.source, ""),
                !.tags = Coalesce(opts.tags, <<>>),
                !.category = Coalesce(opts.category, ex.category)]

\* The entry the merge branch returns: { ...ex, content, embedding, created_at }.
MergedEntry(ex, content, embedding, t) ==
    [ex EXCEPT !.content = content, !.embedding = embedding, !.created_at = t]

\* The entry of the insert branch.
NewEntry(id, content, embedding, t, opts) ==
    [id |-> id, content |-> content, embedding |-> embedding, created_at |-> t,
     source |-> Coalesce(opts.source, ""),
     tags |-> Coalesce(opts.tags, <<>>),
     category |-> Coalesce(opts.category, "other")]

\* The row INSERTed for an entry.
RowOfEntry(entry) == [entry EXCEPT !.embedding = encodeEmbedding(entry.embedding)]

\* opts.dedupeThreshold ?? 0.95
DedupeThreshold(opts) == Coalesce(opts.dedupeThreshold, Milli(DefaultDedupeMilli))

\* randomUUID(): an id of UUID shape that no row has.  No operation tells
\* one such id from another, so the model takes the first unused name.
\* An id generator that hands out the same id again.
randomUUIDRepeats(m) == {UUIDSeq[1]}

randomUUID(m) ==
    LET unused == {k \in 1..Len(UUIDSeq) : UUIDSeq[k] \notin RowIds(m)}
    IN  {UUIDSeq[k] : k \in {j \in unused : \A i \in unused : j <= i}}

\* Every other call that is suspended between its scan and its write has
\* now been overlapped by a write.
Overlap(c) ==
    [d \in Callers |->
        IF d # c /\ pending[d] # Idle
        THEN [pending[d] EXCEPT !.overlapped = TRUE]
        ELSE IF d = c THEN Idle ELSE pending[d]]

\* The suspended store calls that will insert a row.
InFlightInserts ==
    {d \in Callers : pending[d].op = "store" /\ Len(pending[d].existing) = 0}

\* The table has room for one more row (the bound of the model).
HasRoom == Len(memories) + Cardinality(InFlightInserts) < MaxRows

(***************************************************************************)
(* Actions of MemoryDB.                                                    *)
(***************************************************************************)
DbInit ==
    /\ memories = <<>>
    /\ edges = <<>>
    /\ now = 0
    /\ pending = [c \in Callers |-> Idle]
    /\ last = [op |-> "none"]
    /\ handle = [closed |-> FALSE, conn |-> "open"]
    /\ profile = {}

\* The settings DualEmbeddings is constructed from: an OpenAI key is
\* present or not, the Ollama endpoint and model are both present or not.
Configs == [primary : BOOLEAN, fallback : BOOLEAN]

\* A DualEmbeddings as its constructor leaves it.  default is always a new
\* TransformersEmbeddings, with extractor = null and initPromise = null
\* (initPromise 0 is null, otherwise the index of the promise).
DualEmbeddings(cfg) ==
    [primary |-> cfg.primary, fallback |-> cfg.fallback,
     extractor |-> FALSE, initPromise |-> 0]

\* A caller with no embed call in progress.
NoCall ==
    [pc |-> "idle", chain |-> 0, tried |-> <<>>, awaiting |-> 0,
     outcome |-> "none", from |-> "none"]

\* The process before getInstance: no MemoryProvider._instance; its fields
\* are as the constructor will leave them, no store, no chain.
EmbInit ==
    /\ provider = [instance |-> FALSE, initialized |-> FALSE, db |-> "null",
                   embeddings |-> 0]
    /\ chains = <<>>
    /\ promises = <<>>
    /\ calls = [c \in Callers |-> NoCall]

Init == DbInit /\ EmbInit

\* store, up to `await this.vectorSearch(embedding, 1, threshold)`.
StoreBegin(c, a, embedding) ==
    /\ pending[c] = Idle
    /\ LET existing == vectorSearch(memories, embedding, 1, DedupeThreshold(a))
       IN  /\ Len(existing) = 0 => HasRoom
           /\ pending' = [pending EXCEPT ![c] =
                 [op |-> "store", args |-> a, embedding |-> embedding,
                  existing |-> existing, overlapped |-> FALSE]]
    /\ UNCHANGED <<memories, edges, now, last>>
    /\ UNCHANGED <<handle, profile, embVars>>

\* store, after the await: merge into existing[0] or insert.
StoreFinish(c) ==
    /\ pending[c].op = "store"
    /\ LET p == pending[c]
       IN  IF Len(p.existing) > 0
           THEN LET ex == p.existing[1].entry
                IN  /\ memories' = UpdateRow(memories, ex.id,
                          LAMBDA row : MergeRow(row, p.args.content, p.embedding, now, p.args, ex))
                    /\ last' = [op |-> "store", caller |-> c, overlapped |-> p.overlapped,
                                args |-> p.args,
                                ret |-> [entry |-> MergedEntry(ex, p.args.content, p.embedding, now),
                                         isDuplicate |-> TRUE, updatedId |-> Some(ex.id)]]
           ELSE \E id \in randomUUID(memories) :
                  LET entry == NewEntry(id, p.args.content, p.embedding, now, p.args)
                  IN  /\ memories' = Append(memories, RowOfEntry(entry))
                      /\ last' = [op |-> "store", caller |-> c, overlapped |-> p.overlapped,
                                  args |-> p.args,
                                  ret |-> [entry |-> entry, isDuplicate |-> FALSE,
                                           updatedId |-> Absent]]
    /\ pending' = Overlap(c)
    /\ UNCHANGED <<edges, now>>
    /\ UNCHANGED <<handle, profile, embVars>>

\* vectorSearch called on its own (MemoryProvider.search passes minScore 0.3).
VectorSearch(queryEmbedding, limit, minScore) ==
    /\ last' = [op |-> "vectorSearch", queryEmbedding |-> queryEmbedding,
                limit |-> limit, minScore |-> minScore,
                ret |-> vectorSearch(memories, queryEmbedding, limit, minScore)]
    /\ UNCHANGED <<memories, edges, now, pending>>
    /\ UNCHANGED <<handle, profile, embVars>>

\* addEdge: INSERT OR IGNORE with a fresh edge id; a missing endpoint is a
\* foreign-key error, which OR IGNORE does not cover.
AddEdge(fromId, toId, relation) ==
    /\ Len(edges) < MaxEdges
    /\ IF ForeignKeysHold(memories, fromId, toId)
       THEN /\ edges' = Append(edges, [from_id |-> fromId, to_id |-> toId,
                                       relation |-> relation])
            /\ last' = [op |-> "addEdge", fromId |-> fromId, toId |-> toId,
                        relation |-> relation, threw |-> FALSE]
            /\ pending' = Overlap("none")
       ELSE /\ last' = [op |-> "addEdge", fromId |-> fromId, toId |-> toId,
                        relation |-> relation, threw |-> TRUE]
            /\ UNCHANGED <<edges, pending>>
    /\ UNCHANGED <<memories, now>>
    /\ UNCHANGED <<handle, profile, embVars>>

Delete(id) ==
    /\ LET r == delete(memories, edges, id)
       IN  /\ memories' = r.memories
           /\ edges' = r.edges
           /\ last' = [op |-> "delete", id |-> id, threw |-> r.threw,
                       edgesBefore |-> Len(edges)]
           /\ pending' = IF r.threw THEN pending ELSE Overlap("none")
    /\ UNCHANGED now
    /\ UNCHANGED <<handle, profile, embVars>>

DeleteBySource(source) ==
    /\ LET r == deleteBySource(memories, edges, source)
       IN  /\ memories' = r.memories
           /\ edges' = r.edges
           /\ last' = [op |-> "deleteBySource", source |-> source, ret |-> r.changes,
                       edgesBefore |-> Len(edges)]
    /\ pending' = Overlap("none")
    /\ UNCHANGED now
    /\ UNCHANGED <<handle, profile, embVars>>

\* deleteByQuery, up to `await this.vectorSearch(embedding, 10, threshold)`.
DeleteByQueryBegin(c, embedding, threshold) ==
    /\ pending[c] = Idle
    /\ pending' = [pending EXCEPT ![c] =
          [op |-> "deleteByQuery", embedding |-> embedding, threshold |-> threshold,
           matches |-> vectorSearch(memories, embedding, DeleteByQueryLimit, threshold),
           overlapped |-> FALSE]]
    /\ UNCHANGED <<memories, edges, now, last>>
    /\ UNCHANGED <<handle, profile, embVars>>

\* deleteByQuery, after the await: the delete loop and the return.
DeleteByQueryFinish(c) ==
    /\ pending[c].op = "deleteByQuery"
    /\ LET p == pending[c]
           r == DeleteLoop(memories, edges, p.matches)
       IN  /\ memories' = r.memories
           /\ edges' = r.edges
           /\ last' = [op |-> "deleteByQuery", caller |-> c, overlapped |-> p.overlapped,
                       embedding |-> p.embedding, threshold |-> p.threshold,
                       threw |-> r.threw, ret |-> Len(p.matches),
                       edgesBefore |-> Len(edges)]
    /\ pending' = Overlap(c)
    /\ UNCHANGED now
    /\ UNCHANGED <<handle, profile, embVars>>

\* The UPDATE of storeRaw with the embedding column in its SET list too.
RawUpdateClearsEmbedding(row, entry) ==
    [row EXCEPT !.content = entry.content,
                !.embedding = NULL,
                !.created_at = entry.created_at,
                !.source = Coalesce(entry.source, ""),
                !.tags = Coalesce(entry.tags, <<>>),
                !.category = Coalesce(entry.category, "other")]

\* UPDATE memories SET content, created_at, source, tags, category of
\* storeRaw: the embedding column is not in the SET list.
RawUpdate(row, entry) ==
    [row EXCEPT !.content = entry.content,
                !.created_at = entry.created_at,
                !.source = Coalesce(entry.source, ""),
                !.tags = Coalesce(entry.tags, <<>>),
                !.category = Coalesce(entry.category, "other")]

StoreRaw(id, entry) ==
    /\ IF id \in RowIds(memories)
       THEN /\ memories' = UpdateRow(memories, id,
                  LAMBDA row : RawUpdate(row, entry))
            /\ last' = [op |-> "storeRaw", id |-> id, entry |-> entry, ret |-> TRUE]
            /\ pending' = Overlap("none")
       ELSE IF \E i \in 1..Len(memories) : memories[i].content = entry.content
            THEN /\ last' = [op |-> "storeRaw", id |-> id, entry |-> entry, ret |-> FALSE]
                 /\ UNCHANGED <<memories, pending>>
            ELSE /\ HasRoom
                 /\ memories' = Append(memories,
                       [id |-> id, content |-> entry.content, embedding |-> NULL,
                        created_at |-> entry.created_at,
                        source |-> Coalesce(entry.source, ""),
                        tags |-> Coalesce(entry.tags, <<>>),
                        category |-> Coalesce(entry.category, "other")])
                 /\ last' = [op |-> "storeRaw", id |-> id, entry |-> entry, ret |-> TRUE]
                 /\ pending' = Overlap("none")
    /\ UNCHANGED <<edges, now>>
    /\ UNCHANGED <<handle, profile, embVars>>

SetEmbedding(id, embedding) ==
    /\ memories' = UpdateRow(memories, id,
          LAMBDA row : [row EXCEPT !.embedding = encodeEmbedding(embedding)])
    /\ last' = [op |-> "setEmbedding", id |-> id, embedding |-> embedding]
    /\ pending' = Overlap("none")
    /\ UNCHANGED <<edges, now>>
    /\ UNCHANGED <<handle, profile, embVars>>

\* Another writer of the same file (a peer's import, another version of the
\* program) leaves a blob in the embedding column of an existing row.
ForeignWrite(id, blob) ==
    /\ id \in RowIds(memories)
    /\ memories' = UpdateRow(memories, id,
          LAMBDA row : [row EXCEPT !.embedding = blob])
    /\ last' = [op |-> "foreignWrite", id |-> id]
    /\ pending' = Overlap("none")
    /\ UNCHANGED <<edges, now>>
    /\ UNCHANGED <<handle, profile, embVars>>

\* Date.now() advances.
Tick ==
    /\ now + 1 \in Clock
    /\ now' = now + 1
    /\ UNCHANGED <<memories, edges, pending, last>>
    /\ UNCHANGED <<handle, profile, embVars>>

(***************************************************************************)
(* Specifications of MemoryDB.  Each one runs the same operations over the *)
(* inputs its claims are about.                                            *)
(***************************************************************************)
\* Dedup-on-write, merge and semantic forget: every store argument and
\* vector, rows with and without an embedding, ids of both shapes.
NextStore ==
    \/ \E a \in StoreArgs, v \in Vectors : StoreBegin("h1", a, v)
    \/ StoreFinish("h1")
    \/ \E v \in Vectors, t \in DeleteThresholds : DeleteByQueryBegin("h1", v, t)
    \/ DeleteByQueryFinish("h1")
    \/ \E entry \in RawEntries : StoreRaw("note-1", entry)
    \/ \E v \in Vectors : SetEmbedding("note-1", v)

SpecStore == Init /\ [][NextStore]_vars

\* The merge of store at a later time than the insert.
NextMerge ==
    \/ \E a \in StoreArgs, v \in Vectors : StoreBegin("h1", a, v)
    \/ StoreFinish("h1")
    \/ \E entry \in RawEntries : StoreRaw("note-1", entry)
    \/ Tick

SpecMerge == Init /\ [][NextMerge]_vars

\* Retrieval: vectorSearch over tables built by store and the raw import.
PlainArgs == {a \in StoreArgs : ~a.source.some}

NextSearch ==
    \/ \E a \in PlainArgs, v \in Vectors : StoreBegin("h1", a, v)
    \/ StoreFinish("h1")
    \/ \E entry \in RawEntries : StoreRaw("note-1", entry)
    \/ SetEmbedding("note-1", <<1, 1>>)
    \/ \E q \in QueryVectors, l \in Limits, s \in MinScores : VectorSearch(q, l, s)

SpecSearch == Init /\ [][NextSearch]_vars

\* Edges and the three delete operations.
GraphVectors == {<<1, 0>>, <<1, 1>>}
GraphIds == {"u1", "note-1"}

NextGraph ==
    \/ \E a \in PlainArgs, v \in GraphVectors : StoreBegin("h1", a, v)
    \/ StoreFinish("h1")
    \/ \E entry \in RawEntries : StoreRaw("note-1", entry)
    \/ SetEmbedding("note-1", <<1, 0>>)
    \/ \E f \in GraphIds, t \in GraphIds, r \in Relations : AddEdge(f, t, r)
    \/ \E id \in {"u1"} \cup BadNames : Delete(id)
    \/ \E src \in Sources : DeleteBySource(src)
    \/ \E t \in DeleteThresholds : DeleteByQueryBegin("h1", <<1, 0>>, t)
    \/ DeleteByQueryFinish("h1")

SpecGraph == Init /\ [][NextGraph]_vars

(***************************************************************************)
(* What a scan sees, stated on the table itself.                           *)
(***************************************************************************)
\* The score of row i of m against e; only asked of rows with an embedding.
RowScore(m, i, e) == cosineSimilarity(e, decodeEmbedding(m[i].embedding))

\* The rows of m that have an embedding scoring >= th against e.
Matching(m, e, th) ==
    {i \in 1..Len(m) : m[i].embedding # NULL /\ ScoreGE(RowScore(m, i, e), th)}

\* Those of them no other matching row beats.
Best(m, e, th) ==
    {i \in Matching(m, e, th) :
        \A j \in Matching(m, e, th) : ScoreGE(RowScore(m, i, e), RowScore(m, j, e))}

(***************************************************************************)
(* C1.  A store call that no other call overlaps: if some row with an      *)
(* embedding scores >= dedupeThreshold against e, the call returns         *)
(* isDuplicate = true, updatedId is the id of a best-scoring such row and  *)
(* count() is unchanged; otherwise it returns isDuplicate = false, an id   *)
(* no row had, and count() grows by exactly 1.                             *)
(***************************************************************************)
C1_Post(c) ==
    LET e  == pending[c].embedding
        th == DedupeThreshold(pending[c].args)
    IN  IF Matching(memories, e, th) # {}
        THEN /\ last'.ret.isDuplicate
             /\ last'.ret.updatedId \in {Some(memories[i].id) : i \in Best(memories, e, th)}
             /\ count(memories') = count(memories)
        ELSE /\ ~last'.ret.isDuplicate
             /\ last'.ret.entry.id \notin RowIds(memories)
             /\ last'.ret.entry.id \in RowIds(memories')
             /\ count(memories') = count(memories) + 1

C1_StoreDedup ==
    [][\A c \in Callers :
          (StoreFinish(c) /\ ~pending[c].overlapped) => C1_Post(c)]_dbVars

\* A merge has chosen between two rows that both score >= the threshold.
C1_Witness ==
    /\ last.op = "store"
    /\ ~last.overlapped
    /\ last.ret.isDuplicate
    /\ Cardinality(Matching(memories, last.ret.entry.embedding,
                            DedupeThreshold(last.args))) >= 2

(***************************************************************************)
(* C2.  A merge of a store call that no write overlaps replaces, in the    *)
(* row of the matched id, content, embedding, created_at (the time of the  *)
(* merge), source and tags by the call's values, and category by           *)
(* opts.category when given, leaving the row's category otherwise; the     *)
(* ids of the table and every other row are unchanged.                     *)
(***************************************************************************)
C2_Post(c) ==
    LET p  == pending[c]
        id == last'.ret.updatedId.v
    IN  /\ Len(memories') = Len(memories)
        /\ \A i \in 1..Len(memories) :
              IF memories[i].id = id
              THEN /\ memories'[i].id = id
                   /\ memories'[i].content = p.args.content
                   /\ memories'[i].embedding = encodeEmbedding(p.embedding)
                   /\ memories'[i].created_at = now
                   /\ memories'[i].source = (IF p.args.source.some THEN p.args.source.v ELSE "")
                   /\ memories'[i].tags = (IF p.args.tags.some THEN p.args.tags.v ELSE <<>>)
                   /\ memories'[i].category =
                         (IF p.args.category.some THEN p.args.category.v
                          ELSE memories[i].category)
              ELSE memories'[i] = memories[i]
        /\ id \in RowIds(memories)
        /\ edges' = edges

C2_MergeFrame ==
    [][\A c \in Callers :
          (StoreFinish(c) /\ ~pending[c].overlapped /\ last'.ret.isDuplicate)
              => C2_Post(c)]_dbVars

\* A merge without opts.category into a row of another category than the
\* default, at a later time than the row was written, beside another row.
C2_Witness ==
    /\ last.op = "store"
    /\ ~last.overlapped
    /\ last.ret.isDuplicate
    /\ Len(memories) >= 2
    /\ \E i \in 1..Len(memories) :
          /\ memories[i].id = last.ret.updatedId.v
          /\ memories[i].category # "other"
          /\ memories[i].source = ""
          /\ memories[i].created_at = 1

(***************************************************************************)
(* C6.  deleteByQuery(e, threshold) that no other call overlaps deletes    *)
(* exactly the (at most 10) best-scoring rows scoring >= threshold, leaves *)
(* every row scoring below it, and returns the number of rows it removed.  *)
(***************************************************************************)
C6_Post(c) ==
    LET e    == pending[c].embedding
        th   == pending[c].threshold
        hit  == Matching(memories, e, th)
        gone == {i \in 1..Len(memories) : memories[i].id \notin RowIds(memories')}
    IN  /\ ~last'.threw
        /\ gone \subseteq hit
        /\ Cardinality(gone) = Min(DeleteByQueryLimit, Cardinality(hit))
        /\ \A i \in gone, j \in hit \ gone :
              ScoreGE(RowScore(memories, i, e), RowScore(memories, j, e))
        /\ \A i \in 1..Len(memories) : i \notin hit => memories[i] \in {memories'[k] : k \in 1..Len(memories')}
        /\ last'.ret = count(memories) - count(memories')

C6_DeleteByQueryExact ==
    [][\A c \in Callers :
          (DeleteByQueryFinish(c) /\ ~pending[c].overlapped) => C6_Post(c)]_dbVars

\* The same, for calls all of whose matches have an id of UUID shape.
C6_DeleteByQueryExactOnUUIDs ==
    [][\A c \in Callers :
          (/\ DeleteByQueryFinish(c)
           /\ ~pending[c].overlapped
           /\ \A i \in Matching(memories, pending[c].embedding, pending[c].threshold) :
                 memories[i].id \in UUIDNames)
              => C6_Post(c)]_dbVars

C4_EdgesReferToMemories ==
    \A i \in 1..Len(edges) :
        edges[i].from_id \in RowIds(memories) /\ edges[i].to_id \in RowIds(memories)

\* A delete operation has just taken edges with the rows it removed.
C4_Witness ==
    /\ last.op \in {"delete", "deleteBySource", "deleteByQuery"}
    /\ Len(edges) < last.edgesBefore
    /\ Len(memories) > 0

(***************************************************************************)
(* C5.  delete(id) with an id that is not of UUID shape throws and leaves  *)
(* memories and memory_edges as they were.                                 *)
(***************************************************************************)
C5_DeleteRejectsMalformed ==
    [][\A id \in BadNames :
          Delete(id) => /\ last'.threw
                        /\ memories' = memories
                        /\ edges' = edges]_dbVars

\* A malformed id that names a row with an edge has been refused.
C5_Witness ==
    /\ last.op = "delete"
    /\ last.threw
    /\ last.id \in RowIds(memories)
    /\ \E i \in 1..Len(edges) : edges[i].from_id = last.id

(***************************************************************************)
(* The embedding chain and its orchestrator.  The loggers are taken to     *)
(* return normally; the calls into the backends (the OpenAI and Ollama     *)
(* requests, pipeline(...), the extractor) may fail.                       *)
(***************************************************************************)
\* The faults of MemoryProvider.ensureInitialized: fs.mkdirSync throws, or
\* the MemoryDB constructor throws.
Faults == {"none", "mkdir", "open"}

\* A call suspended at position pc on chain k, having tried tr, awaiting p.
Suspended(pc, k, tr, p) ==
    [pc |-> pc, chain |-> k, tried |-> tr, awaiting |-> p,
     outcome |-> "none", from |-> "none"]

\* A call that has returned or thrown.
Finished(k, tr, outcome, from) ==
    [pc |-> "done", chain |-> k, tried |-> tr, awaiting |-> 0,
     outcome |-> outcome, from |-> from]

\* The record of one backend tried by a call.
Tried(tr, backend, ok) == Append(tr, [backend |-> backend, ok |-> ok])

\* `this.initPromise = null` of the catch block of the load.
ResetInitPromise(t) == [t EXCEPT !.initPromise = 0]

\* `this.initPromise = (async () => {...})()`.
AssignInitPromise(t, p) == [t EXCEPT !.initPromise = p]

\* `this.extractor = await pipeline(...)`, resumed with the model.
AssignExtractor(t) == [t EXCEPT !.extractor = TRUE]

\* The first tier DualEmbeddings.embed tries, and the tier after primary.
FirstTier(d) ==
    IF d.primary THEN "primary" ELSE IF d.fallback THEN "fallback" ELSE "default"

AfterPrimarySkipsFallback(d) == "default"

AfterPrimary(d) == IF d.fallback THEN "fallback" ELSE "default"

\* TransformersEmbeddings.embed up to its first suspension, which is inside
\* ensureInitialized unless the extractor is there.  A new load runs its
\* body up to `await pipeline(...)`; when that part throws, the catch block
\* resets initPromise and then the assignment stores the rejected promise.
DefaultBegin(c, k, tr) ==
    LET t == chains[k]
        p == Len(promises) + 1
    IN  IF t.extractor
        THEN /\ calls' = [calls EXCEPT ![c] = Suspended("extract", k, tr, 0)]
             /\ UNCHANGED <<chains, promises>>
        ELSE IF t.initPromise # 0
        THEN /\ calls' = [calls EXCEPT ![c] =
                              Suspended("awaitInit", k, tr, t.initPromise)]
             /\ UNCHANGED <<chains, promises>>
        ELSE /\ Len(promises) < MaxLoads
             /\ \E thrown \in BOOLEAN :
                    /\ promises' = Append(promises,
                           [state |-> IF thrown THEN "rejected" ELSE "pending",
                            chain |-> k])
                    /\ chains' = [chains EXCEPT ![k] =
                           IF thrown
                           THEN AssignInitPromise(ResetInitPromise(t), p)
                           ELSE AssignInitPromise(t, p)]
             /\ calls' = [calls EXCEPT ![c] = Suspended("awaitInit", k, tr, p)]

\* DualEmbeddings.embed reaches a tier: primary and fallback suspend at the
\* await of their request, default runs TransformersEmbeddings.embed.
EnterTier(c, k, tier, tr) ==
    IF tier = "default"
    THEN DefaultBegin(c, k, tr)
    ELSE /\ calls' = [calls EXCEPT ![c] = Suspended(tier, k, tr, 0)]
         /\ UNCHANGED <<chains, promises>>

NeedsInitIgnoresStore == ~provider.initialized

\* MemoryProvider.ensureInitialized has work to do.
NeedsInit == ~(provider.initialized /\ provider.db = "open")

\* The effect of MemoryProvider.ensureInitialized on the provider.
ProviderEnsure(cfg, fault) ==
    IF ~NeedsInit \/ fault = "mkdir"
    THEN /\ provider' = [provider EXCEPT !.instance = TRUE]
         /\ UNCHANGED chains
    ELSE /\ Len(chains) < MaxChains
         /\ chains' = Append(chains, DualEmbeddings(cfg))
         /\ provider' =
                IF fault = "open"
                THEN [provider EXCEPT !.instance = TRUE,
                                      !.embeddings = Len(chains) + 1]
                ELSE [instance |-> TRUE, initialized |-> TRUE, db |-> "open",
                      embeddings |-> Len(chains) + 1]

\* `await this.ensureInitialized()` at the head of store, search and
\* forgetByQuery.
EnsureInitialized(c, cfg, fault) ==
    /\ provider.instance
    /\ calls[c].pc \in {"idle", "done"}
    /\ ProviderEnsure(cfg, fault)
    /\ calls' = [calls EXCEPT ![c] =
           IF NeedsInit /\ fault # "none"
           THEN Finished(0, <<>>, "initThrew", "none")
           ELSE Suspended("ensured", 0, <<>>, 0)]
    /\ UNCHANGED promises
    /\ UNCHANGED dbVars

\* MemoryProvider.getInstance when there is no instance: the instance is
\* assigned, then ensureInitialized runs; later calls return the instance.
GetInstance(cfg, fault) ==
    /\ ~provider.instance
    /\ ProviderEnsure(cfg, fault)
    /\ UNCHANGED <<promises, calls>>
    /\ UNCHANGED dbVars

\* The status bar's refresh: ensureInitialized on its own.
StatusRefresh(cfg, fault) ==
    /\ provider.instance
    /\ NeedsInit
    /\ ProviderEnsure(cfg, fault)
    /\ UNCHANGED <<promises, calls>>
    /\ UNCHANGED dbVars

\* MemoryProvider.close: the store is closed, the fields stay.
Close ==
    /\ provider.db = "open"
    /\ provider' = [provider EXCEPT !.db = "closed"]
    /\ UNCHANGED <<chains, promises, calls>>
    /\ UNCHANGED dbVars

\* `this.embeddings.embed(content)`: DualEmbeddings.embed to its first
\* suspension, on the chain the provider holds now.
EmbedBegin(c) ==
    /\ calls[c].pc = "ensured"
    /\ provider.embeddings # 0
    /\ EnterTier(c, provider.embeddings,
                 FirstTier(chains[provider.embeddings]), <<>>)
    /\ UNCHANGED provider
    /\ UNCHANGED dbVars

\* The request of the primary backend settles.
PrimarySettle(c, ok) ==
    LET k == calls[c].chain
        tr == Tried(calls[c].tried, "primary", ok)
    IN  /\ calls[c].pc = "primary"
        /\ IF ok
           THEN /\ calls' = [calls EXCEPT ![c] =
                                 Finished(k, tr, "returned", "primary")]
                /\ UNCHANGED <<chains, promises>>
           ELSE EnterTier(c, k, AfterPrimary(chains[k]), tr)
        /\ UNCHANGED provider
        /\ UNCHANGED dbVars

\* The request of the fallback backend settles.
FallbackSettle(c, ok) ==
    LET k == calls[c].chain
        tr == Tried(calls[c].tried, "fallback", ok)
    IN  /\ calls[c].pc = "fallback"
        /\ IF ok
           THEN /\ calls' = [calls EXCEPT ![c] =
                                 Finished(k, tr, "returned", "fallback")]
                /\ UNCHANGED <<chains, promises>>
           ELSE EnterTier(c, k, "default", tr)
        /\ UNCHANGED provider
        /\ UNCHANGED dbVars

\* `await pipeline(...)` of load p settles: the extractor is assigned, or
\* the catch block resets initPromise and the promise rejects.
LoadSettle(p, ok) ==
    LET k == promises[p].chain
    IN  /\ p <= Len(promises)
        /\ promises[p].state = "pending"
        /\ promises' = [promises EXCEPT ![p].state =
                            IF ok THEN "fulfilled" ELSE "rejected"]
        /\ chains' = [chains EXCEPT ![k] =
                          IF ok THEN AssignExtractor(@) ELSE ResetInitPromise(@)]
        /\ UNCHANGED <<provider, calls>>
        /\ UNCHANGED dbVars

\* The reaction of call c to the promise it awaits may run.
ResumableOnSuccess(c) == promises[calls[c].awaiting].state = "fulfilled"

Resumable(c) == promises[calls[c].awaiting].state # "pending"

\* `await this.ensureInitialized()` of TransformersEmbeddings.embed resumes:
\* with the extractor the call goes on to use it, with the error the
\* default tier has failed and DualEmbeddings.embed throws.
InitResume(c) ==
    LET k == calls[c].chain
        p == calls[c].awaiting
    IN  /\ calls[c].pc = "awaitInit"
        /\ Resumable(c)
        /\ calls' = [calls EXCEPT ![c] =
               IF promises[p].state = "fulfilled" /\ chains[k].extractor
               THEN Suspended("extract", k, calls[c].tried, 0)
               ELSE Finished(k, Tried(calls[c].tried, "default", FALSE),
                             "threw", "none")]
        /\ UNCHANGED <<provider, chains, promises>>
        /\ UNCHANGED dbVars

\* `await this.extractor(text, ...)` settles and the length is checked.
ExtractSettle(c, ok) ==
    LET k == calls[c].chain
        tr == Tried(calls[c].tried, "default", ok)
    IN  /\ calls[c].pc = "extract"
        /\ calls' = [calls EXCEPT ![c] =
               IF ok THEN Finished(k, tr, "returned", "default")
               ELSE Finished(k, tr, "threw", "none")]
        /\ UNCHANGED <<provider, chains, promises>>
        /\ UNCHANGED dbVars

\* The settings the chain is constructed from in the runs: both overrides
\* configured, or none.
EmbedConfigs == {cfg \in Configs : cfg.primary = cfg.fallback}

NextEmbed ==
    \/ \E cfg \in EmbedConfigs, f \in Faults : GetInstance(cfg, f)
    \/ \E c \in Callers, cfg \in EmbedConfigs, f \in Faults :
           EnsureInitialized(c, cfg, f)
    \/ \E cfg \in EmbedConfigs, f \in Faults : StatusRefresh(cfg, f)
    \/ Close
    \/ \E c \in Callers : EmbedBegin(c)
    \/ \E c \in Callers, ok \in BOOLEAN : PrimarySettle(c, ok)
    \/ \E c \in Callers, ok \in BOOLEAN : FallbackSettle(c, ok)
    \/ \E p \in 1..MaxLoads, ok \in BOOLEAN : LoadSettle(p, ok)
    \/ \E c \in Callers : InitResume(c)
    \/ \E c \in Callers, ok \in BOOLEAN : ExtractSettle(c, ok)

SpecEmbed == Init /\ [][NextEmbed]_vars

\* The chain under every configuration, without faults of the orchestrator.
NextChain ==
    \/ \E cfg \in Configs : GetInstance(cfg, "none")
    \/ \E c \in Callers, cfg \in Configs : EnsureInitialized(c, cfg, "none")
    \/ Close
    \/ \E c \in Callers : EmbedBegin(c)
    \/ \E c \in Callers, ok \in BOOLEAN : PrimarySettle(c, ok)
    \/ \E c \in Callers, ok \in BOOLEAN : FallbackSettle(c, ok)
    \/ \E p \in 1..MaxLoads, ok \in BOOLEAN : LoadSettle(p, ok)
    \/ \E c \in Callers : InitResume(c)
    \/ \E c \in Callers, ok \in BOOLEAN : ExtractSettle(c, ok)

SpecChain == Init /\ [][NextChain]_vars

\* The event loop runs the reaction of every settled promise.
FairSpecEmbed == SpecEmbed /\ \A c \in Callers : WF_vars(InitResume(c))

(***************************************************************************)
(* The chain as it is configured, stated on the configuration itself.      *)
(***************************************************************************)
\* The backends a DualEmbeddings holds, in priority order.
ConfiguredOrder(d) ==
    (IF d.primary THEN <<"primary">> ELSE <<>>)
        \o (IF d.fallback THEN <<"fallback">> ELSE <<>>)
        \o <<"default">>

\* The calls that are inside DualEmbeddings.embed or have left it.
InEmbed(c) == calls[c].chain # 0

\* The tier a suspended call is waiting in.
TierOf(pc) == IF pc \in {"awaitInit", "extract"} THEN "default" ELSE pc

LoadsInFlight == {p \in 1..Len(promises) : promises[p].state = "pending"}
LoadsCompleted == {p \in 1..Len(promises) : promises[p].state = "fulfilled"}

\* C8: over the embed calls of one process, those after the orchestrator
\* re-initializes following close() included, never two loads of the local
\* model are in flight and at most one load completes successfully.
C8_LoadsOncePerProcess ==
    /\ Cardinality(LoadsInFlight) <= 1
    /\ Cardinality(LoadsCompleted) <= 1

\* The same for the loads of each TransformersEmbeddings object taken alone.
C8_LoadsOncePerInstance ==
    \A k \in 1..Len(chains) :
        /\ Cardinality({p \in LoadsInFlight : promises[p].chain = k}) <= 1
        /\ Cardinality({p \in LoadsCompleted : promises[p].chain = k}) <= 1

\* C9: after a failed load, whether it failed before or after its first
\* suspension, initPromise is null again: no backend holds the promise of a
\* load that has failed.
C9_FailedLoadClearsMarker ==
    \A k \in 1..Len(chains) :
        chains[k].initPromise # 0 =>
            promises[chains[k].initPromise].state # "rejected"

\* The same for the loads that fail after their first suspension: initPromise
\* never holds a promise that rejected at `await pipeline(...)`.
C9_LateFailureClearsMarker ==
    [][\A p \in 1..Len(promises) :
           (promises[p].state = "pending" /\ promises'[p].state = "rejected")
               => chains'[promises[p].chain].initPromise = 0]_vars

\* C10: a call waiting on a load that has settled eventually proceeds, and
\* when it does it goes on with the model if the load succeeded and throws
\* if the load failed.
C10_NoLostWakeup ==
    /\ \A c \in Callers :
           (calls[c].pc = "awaitInit"
                /\ promises[calls[c].awaiting].state # "pending")
               ~> (calls[c].pc # "awaitInit")
    /\ [][\A c \in Callers :
              (calls[c].pc = "awaitInit" /\ calls'[c].pc # "awaitInit") =>
                  LET p == calls[c].awaiting
                  IN  /\ promises[p].state = "fulfilled" =>
                             /\ calls'[c].pc = "extract"
                             /\ chains[calls[c].chain].extractor
                      /\ promises[p].state = "rejected" =>
                             /\ calls'[c].pc = "done"
                             /\ calls'[c].outcome = "threw"
                      /\ promises[p].state # "pending"]_vars

\* Both callers wait on the same load and the load has failed.
C10_Witness ==
    /\ \A c \in Callers : calls[c].pc = "awaitInit"
    /\ calls["h1"].awaiting = calls["h2"].awaiting
    /\ promises[calls["h1"].awaiting].state = "rejected"
    /\ chains[calls["h1"].chain].initPromise = 0

\* C11: ensureInitialized changes nothing when the provider is initialized
\* and its store is open; and a store, search or forgetByQuery call that gets
\* past it, from a provider never initialized, initialized, or closed by
\* close(), holds an open store and a chain, and it throws there only when
\* there was something to initialize.
C11_EnsureInitializedIdempotent ==
    [][\A c \in Callers :
           (calls[c].pc \in {"idle", "done"} /\ calls'[c] # calls[c]) =>
               /\ calls'[c].pc = "ensured" =>
                      /\ provider'.initialized
                      /\ provider'.db = "open"
                      /\ provider'.embeddings \in 1..Len(chains')
               /\ (provider.initialized /\ provider.db = "open") =>
                      /\ provider' = provider
                      /\ chains' = chains
                      /\ calls'[c].pc = "ensured"
               /\ calls'[c].pc = "done" =>
                      /\ calls'[c].outcome = "initThrew"
                      /\ ~(provider.initialized /\ provider.db = "open")]_vars

\* A call is past ensureInitialized on a provider that was closed and has
\* been initialized again, while the other caller went through the no-op.
C11_Witness ==
    /\ Len(chains) = 2
    /\ provider.embeddings = 2
    /\ provider.db = "open"
    /\ calls["h1"].pc = "ensured"
    /\ calls["h2"].pc = "ensured"

(***************************************************************************)
(* The synchronous operations of MemoryProvider.  They do not call         *)
(* ensureInitialized: they use the handle as it is.  A closed handle       *)
(* throws at its first statement.                                          *)
(***************************************************************************)
\* The categories of the rows with their numbers, as GROUP BY returns them.
CategoryCounts(m) ==
    {<<cat, Cardinality({i \in 1..Len(m) : m[i].category = cat})>> :
         cat \in {m[i].category : i \in 1..Len(m)}}

\* SELECT MAX(created_at): null on an empty table.
getLastCaptureTime(m) ==
    IF Len(m) = 0 THEN Absent
    ELSE Some(CHOOSE t \in {m[i].created_at : i \in 1..Len(m)} :
                  \A i \in 1..Len(m) : m[i].created_at <= t)

\* MemoryDB.stats.
stats(m, e) ==
    [totalMemories |-> count(m), categories |-> CategoryCounts(m),
     edgeCount |-> Len(e), lastCaptureTime |-> getLastCaptureTime(m)]

\* The value stats answers with when there is no store.
EmptyStats ==
    [totalMemories |-> 0, categories |-> {}, edgeCount |-> 0,
     lastCaptureTime |-> Absent]

\* MemoryProvider.count: `this.db?.count() ?? 0`.
ProviderCount ==
    /\ provider.instance
    /\ last' = [op |-> "provider.count", db |-> provider.db,
                threw |-> provider.db = "closed",
                ret |-> IF provider.db = "open" THEN count(memories) ELSE 0]
    /\ UNCHANGED <<memories, edges, now, pending>>
    /\ UNCHANGED <<handle, profile, embVars>>

\* MemoryProvider.stats: `this.db?.stats() ?? {...zeros}`.
ProviderStats ==
    /\ provider.instance
    /\ last' = [op |-> "provider.stats", db |-> provider.db,
                threw |-> provider.db = "closed",
                ret |-> IF provider.db = "open" THEN stats(memories, edges)
                        ELSE EmptyStats]
    /\ UNCHANGED <<memories, edges, now, pending>>
    /\ UNCHANGED <<handle, profile, embVars>>

\* MemoryProvider.forgetById: throws without a store, else MemoryDB.delete.
ProviderForgetById(id) ==
    /\ provider.instance
    /\ LET r == IF provider.db = "open"
                THEN delete(memories, edges, id)
                ELSE [memories |-> memories, edges |-> edges, threw |-> TRUE]
       IN  /\ memories' = r.memories
           /\ edges' = r.edges
           /\ last' = [op |-> "provider.forgetById", db |-> provider.db,
                       threw |-> r.threw, ret |-> ~r.threw]
           /\ pending' = IF r.threw THEN pending ELSE Overlap("none")
    /\ UNCHANGED now
    /\ UNCHANGED <<handle, profile, embVars>>

\* The provider's synchronous operations, over a file that the import path
\* fills, with the store absent, open and closed.
FacadeIds == {"u1", "note-1"}

NextFacade ==
    \/ \E cfg \in EmbedConfigs, f \in Faults : GetInstance(cfg, f)
    \/ \E cfg \in EmbedConfigs, f \in Faults : StatusRefresh(cfg, f)
    \/ Close
    \/ ProviderCount
    \/ ProviderStats
    \/ \E id \in FacadeIds : ProviderForgetById(id)
    \/ \E id \in FacadeIds, entry \in RawEntries : StoreRaw(id, entry)

SpecFacade == Init /\ [][NextFacade]_vars

\* C12: an operation of the provider invoked while there is no store (db is
\* null) throws; it never answers.  Stated for count, stats and forgetById,
\* the operations that do not initialize first.
C12_UninitializedSurfaced ==
    (/\ last.op \in {"provider.count", "provider.stats", "provider.forgetById"}
     /\ last.db = "null")
        => last.threw

\* The same for forgetById alone.
C12_ForgetByIdSurfaced ==
    (last.op = "provider.forgetById" /\ last.db = "null") => last.threw

(***************************************************************************)
(* vectorSearchBoosted.  A multiplier is a ratio num/den of small          *)
(* integers, so the boosted score (dot * num) / (sqrt(nn) * den) stays     *)
(* exact.                                                                  *)
(***************************************************************************)
OneScore == [dot |-> 1, nn |-> 1]

\* score * boost
Times(score, boost) ==
    [dot |-> score.dot * boost.num, nn |-> score.nn * boost.den * boost.den]

\* Math.min(x, 1.0)
MinOne(x) == IF ScoreGE(OneScore, x) THEN x ELSE OneScore

\* `if (boost)`: undefined and 0 are falsy.
Truthy(boost) == boost.some /\ boost.v.num # 0

\* The loop over the candidates: the score of r after it.
BoostedScore(r, boostCategories) ==
    LET boost == boostCategories[r.entry.category]
    IN  IF Truthy(boost) THEN MinOne(Times(r.score, boost.v)) ELSE r.score

vectorSearchBoosted(m, queryEmbedding, limit, minScore, boostCategories) ==
    LET results == vectorSearch(m, queryEmbedding, limit * 2, minScore)
        boosted == [i \in 1..Len(results) |->
                        [results[i] EXCEPT
                             !.score = BoostedScore(results[i], boostCategories)]]
    IN  Slice0(SortByScore(boosted), limit)

VectorSearchBoosted(queryEmbedding, limit, minScore, boostCategories) ==
    /\ last' = [op |-> "vectorSearchBoosted", queryEmbedding |-> queryEmbedding,
                limit |-> limit, minScore |-> minScore,
                boostCategories |-> boostCategories,
                ret |-> vectorSearchBoosted(memories, queryEmbedding, limit,
                                            minScore, boostCategories)]
    /\ UNCHANGED <<memories, edges, now, pending>>
    /\ UNCHANGED <<handle, profile, embVars>>

\* Rows scoring 0.6 and 0.4 against the query <<1, 0, 0, 0>>, in the
\* categories 'other' and 'preference'; multipliers 2.0, 0.5 and 0.
BoostVectors == {<<3, 4, 0, 0>>, <<2, 1, 2, 4>>}
BoostQuery == <<1, 0, 0, 0>>
Ratio(num, den) == Some([num |-> num, den |-> den])
NoBoost == [other |-> Absent, preference |-> Absent]
BoostMaps ==
    {NoBoost,
     [NoBoost EXCEPT !.preference = Ratio(2, 1)],
     [NoBoost EXCEPT !.other = Ratio(1, 2)],
     [NoBoost EXCEPT !.other = Ratio(0, 1)],
     [other |-> Ratio(2, 1), preference |-> Ratio(2, 1)]}

NextBoost ==
    \/ \E a \in StoreArgs, v \in BoostVectors : StoreBegin("h1", a, v)
    \/ StoreFinish("h1")
    \/ \E l \in Limits, b \in BoostMaps :
           VectorSearchBoosted(BoostQuery, l, Milli(DefaultMinScoreMilli), b)

SpecBoost == Init /\ [][NextBoost]_vars

\* What the statement gives: the candidates and the score of each.
Candidates == vectorSearch(memories, last.queryEmbedding, 2 * last.limit, last.minScore)

Multiplied(r) ==
    LET boost == last.boostCategories[r.entry.category]
    IN  IF boost.some THEN MinOne(Times(r.score, boost.v)) ELSE r.score

MultipliedNonZero(r) ==
    LET boost == last.boostCategories[r.entry.category]
    IN  IF boost.some /\ boost.v.num # 0
        THEN MinOne(Times(r.score, boost.v)) ELSE r.score

SameScore(s, t) == ScoreGE(s, t) /\ ScoreGE(t, s)

\* ret is the best `limit` of the candidates under the scores new(_).
C13_Post(new(_)) ==
    LET ret == last.ret
        cands == Candidates
        retIds == {ret[i].entry.id : i \in 1..Len(ret)}
    IN  /\ Len(ret) = Min(last.limit, Len(cands))
        /\ Cardinality(retIds) = Len(ret)
        /\ \A i \in 1..Len(ret) : \E j \in 1..Len(cands) :
               /\ cands[j].entry = ret[i].entry
               /\ SameScore(ret[i].score, new(cands[j]))
        /\ \A i \in 1..Len(ret), j \in 1..Len(ret) :
               i < j => ScoreGE(ret[i].score, ret[j].score)
        /\ \A j \in 1..Len(cands) : cands[j].entry.id \notin retIds =>
               \A i \in 1..Len(ret) : ScoreGE(ret[i].score, new(cands[j]))

\* C13: vectorSearchBoosted returns the at most `limit` best of the top
\* 2 * limit candidates of the plain scan, where the score of each candidate
\* whose category has a multiplier is replaced by min(score * multiplier, 1).
C13_BoostedRanking ==
    last.op = "vectorSearchBoosted" => C13_Post(Multiplied)

\* The same with a multiplier of 0 counted as no multiplier.
C13_BoostedRankingNonZero ==
    last.op = "vectorSearchBoosted" => C13_Post(MultipliedNonZero)

\* The scenario: with 'preference' boosted by 2.0 the row of raw score 0.4
\* in 'preference' comes before the row of raw score 0.6 in 'other'.
C13_Scenario ==
    /\ last.op = "vectorSearchBoosted"
    /\ last.boostCategories = [NoBoost EXCEPT !.preference = Ratio(2, 1)]
    /\ Len(last.ret) = 2
    /\ last.ret[1].entry.category = "preference"
    /\ SameScore(last.ret[1].score, [dot |-> 4, nn |-> 25])
    /\ last.ret[2].entry.category = "other"
    /\ SameScore(last.ret[2].score, [dot |-> 3, nn |-> 25])

(***************************************************************************)
(* Rows without a usable embedding.                                        *)
(***************************************************************************)
\* A blob of 12 bytes: one double and a half.
CorruptBlob == [byteLength |-> 12, f64 |-> <<1, 0>>]

NextSkip ==
    \/ \E a \in StoreArgs, v \in GraphVectors : StoreBegin("h1", a, v)
    \/ StoreFinish("h1")
    \/ \E entry \in RawEntries : StoreRaw("u3", entry)
    \/ SetEmbedding("u3", <<1, 0>>)
    \/ \E id \in {"u1", "u3"} : ForeignWrite(id, CorruptBlob)
    \/ \E l \in Limits, s \in MinScores : VectorSearch(<<1, 0>>, l, s)
    \/ \E t \in DeleteThresholds : DeleteByQueryBegin("h1", <<1, 0>>, t)
    \/ DeleteByQueryFinish("h1")

SpecSkip == Init /\ [][NextSkip]_vars

\* The rows a scan has to skip, and the rows it has to score.
Unusable(row) == row.embedding = NULL \/ row.embedding.byteLength % 8 # 0
Skipped(m) == {m[i].id : i \in {j \in 1..Len(m) : Unusable(m[j])}}
Scored(m, e, th) ==
    {m[i].id : i \in {j \in 1..Len(m) :
         /\ ~Unusable(m[j])
         /\ ScoreGE(cosineSimilarity(e, m[j].embedding.f64), th)}}
EntryIds(rs) == {rs[i].entry.id : i \in 1..Len(rs)}

\* C14: a row whose embedding is missing or cannot be decoded is skipped
\* without an error: it is in no vectorSearch result, it is not the row
\* store merges into, deleteByQuery does not delete it; and the rows with an
\* embedding are scanned and returned all the same.
C14_UnusableRowsSkipped ==
    [][/\ (last' # last /\ last'.op = "vectorSearch") =>
              /\ EntryIds(last'.ret) \cap Skipped(memories) = {}
              /\ EntryIds(last'.ret) \subseteq
                     Scored(memories, last'.queryEmbedding, last'.minScore)
              /\ Len(last'.ret) =
                     Min(last'.limit, Cardinality(
                         Scored(memories, last'.queryEmbedding, last'.minScore)))
       /\ \A c \in Callers :
              /\ (pending[c] = Idle /\ pending'[c].op = "store") =>
                     LET p == pending'[c]
                         th == DedupeThreshold(p.args)
                     IN  /\ EntryIds(p.existing) \cap Skipped(memories) = {}
                         /\ EntryIds(p.existing) \subseteq
                                Scored(memories, p.embedding, th)
                         /\ Len(p.existing) = 0 <=>
                                Scored(memories, p.embedding, th) = {}
              /\ (pending[c].op = "store" /\ pending'[c] = Idle) =>
                     (last'.ret.isDuplicate =>
                          last'.ret.updatedId.v \in EntryIds(pending[c].existing))
              /\ (pending[c] = Idle /\ pending'[c].op = "deleteByQuery") =>
                     LET p == pending'[c]
                     IN  EntryIds(p.matches) =
                             Scored(memories, p.embedding, p.threshold)
              /\ (pending[c].op = "deleteByQuery" /\ pending'[c] = Idle) =>
                     /\ ~last'.threw
                     /\ RowIds(memories) \ RowIds(memories')
                            \subseteq EntryIds(pending[c].matches)]_vars

\* A search has returned the one row with an embedding from a table that
\* also holds a row with an undecodable blob.
C14_Witness ==
    /\ last.op = "vectorSearch"
    /\ Len(last.ret) = 1
    /\ Len(memories) = 2
    /\ \E i \in 1..2 : memories[i].embedding = CorruptBlob

(***************************************************************************)
(* The raw import path.                                                    *)
(***************************************************************************)
\* Entries of the import: the one of RawEntries, and one with the content of
\* a stored memory and the optional fields the other way round.
ImportEntries ==
    RawEntries \cup
    {[content |-> "tabs", created_at |-> 1, source |-> Absent,
      tags |-> Some(<<"t">>), category |-> Some("decision")]}

ImportIds == {"note-1", "u3"}

NextRaw ==
    \/ \E a \in PlainArgs, v \in GraphVectors : StoreBegin("h1", a, v)
    \/ StoreFinish("h1")
    \/ \E id \in ImportIds, entry \in ImportEntries : StoreRaw(id, entry)
    \/ \E id \in ImportIds, v \in GraphVectors : SetEmbedding(id, v)

SpecRaw == Init /\ [][NextRaw]_vars

\* The positions of the rows with the given id.
At(m, id) == {i \in 1..Len(m) : m[i].id = id}

\* C15: storeRaw(entry) overwrites content, created_at, source, tags and
\* category of the row with entry.id when there is one, leaves its embedding
\* and returns true; else with a row of exactly the same content it changes
\* nothing and returns false; else it inserts a row with entry.id and no
\* embedding and returns true.  setEmbedding(id, v) changes only the embedding
\* of the row with that id.
C15_StoreRawUpsert ==
    [][/\ (last' # last /\ last'.op = "storeRaw") =>
              LET id == last'.id
                  entry == last'.entry
                  source == IF entry.source.some THEN entry.source.v ELSE ""
                  tags == IF entry.tags.some THEN entry.tags.v ELSE <<>>
                  category == IF entry.category.some THEN entry.category.v
                              ELSE "other"
              IN  /\ edges' = edges
                  /\ IF At(memories, id) # {}
                     THEN /\ last'.ret = TRUE
                          /\ Len(memories') = Len(memories)
                          /\ \A i \in 1..Len(memories) :
                                 IF memories[i].id = id
                                 THEN /\ memories'[i].id = id
                                      /\ memories'[i].content = entry.content
                                      /\ memories'[i].created_at = entry.created_at
                                      /\ memories'[i].source = source
                                      /\ memories'[i].tags = tags
                                      /\ memories'[i].category = category
                                      /\ memories'[i].embedding = memories[i].embedding
                                 ELSE memories'[i] = memories[i]
                     ELSE IF \E i \in 1..Len(memories) :
                                 memories[i].content = entry.content
                     THEN /\ last'.ret = FALSE
                          /\ memories' = memories
                     ELSE /\ last'.ret = TRUE
                          /\ Len(memories') = Len(memories) + 1
                          /\ SubSeq(memories', 1, Len(memories)) = memories
                          /\ memories'[Len(memories')] =
                                 [id |-> id, content |-> entry.content,
                                  embedding |-> NULL,
                                  created_at |-> entry.created_at,
                                  source |-> source, tags |-> tags,
                                  category |-> category]
       /\ (last' # last /\ last'.op = "setEmbedding") =>
              /\ edges' = edges
              /\ Len(memories') = Len(memories)
              /\ \A i \in 1..Len(memories) :
                     IF memories[i].id = last'.id
                     THEN /\ decodeEmbedding(memories'[i].embedding) = last'.embedding
                          /\ [memories'[i] EXCEPT !.embedding = NULL]
                                 = [memories[i] EXCEPT !.embedding = NULL]
                     ELSE memories'[i] = memories[i]]_vars

\* storeRaw has overwritten a row that has an embedding, with another row in
\* the table.
C15_Witness ==
    /\ last.op = "storeRaw"
    /\ last.ret = TRUE
    /\ last.entry.content = "tabs"
    /\ Len(memories) = 2
    /\ \E i \in 1..2 :
           /\ memories[i].id = last.id
           /\ memories[i].content = "tabs"
           /\ memories[i].created_at = 1
           /\ memories[i].embedding # NULL

(***************************************************************************)
(* getRelated.  The statement has no ORDER BY, so the result is kept as    *)
(* the set of its join rows, one for each pair of an edge and a memory.    *)
(***************************************************************************)
\* The ON clause with one direction only.
JoinsToOnly(e, row) == e.to_id = row.id

\* ON (e.to_id = m.id OR e.from_id = m.id)
Joins(e, row) == e.to_id = row.id \/ e.from_id = row.id

\* `relation ? ... AND e.relation = ? ... : ...`: undefined and '' are
\* falsy and select the statement without the relation test.
RelationTest(e, relation) ==
    (relation.some /\ relation.v # "") => e.relation = relation.v

\* The entry made of a result row: the embedding is not selected.
RelatedEntry(row) ==
    [id |-> row.id, content |-> row.content, embedding |-> <<>>,
     created_at |-> row.created_at, source |-> row.source,
     tags |-> row.tags, category |-> row.category]

getRelated(m, e, memoryId, relation) ==
    {[edge |-> j, entry |-> RelatedEntry(m[i])] :
        <<i, j>> \in {x \in (1..Len(m)) \X (1..Len(e)) :
            /\ Joins(e[x[2]], m[x[1]])
            /\ e[x[2]].from_id = memoryId \/ e[x[2]].to_id = memoryId
            /\ RelationTest(e[x[2]], relation)
            /\ m[x[1]].id # memoryId}}

GetRelated(memoryId, relation) ==
    /\ last' = [op |-> "getRelated", memoryId |-> memoryId,
                relation |-> relation,
                ret |-> getRelated(memories, edges, memoryId, relation)]
    /\ UNCHANGED <<memories, edges, now, pending>>
    /\ UNCHANGED <<handle, profile, embVars>>

\* Two relations on the edges; the lookup without a relation, with one of
\* them, and with the empty string.
EdgeRelations == {"related", "blocks"}
RelationArgs == {Absent, Some("related"), Some("")}
RelatedIds == {"u1", "u2"}

NextRelated ==
    \/ \E a \in PlainArgs, v \in GraphVectors : StoreBegin("h1", a, v)
    \/ StoreFinish("h1")
    \/ \E f \in RelatedIds, t \in RelatedIds, r \in EdgeRelations : AddEdge(f, t, r)
    \/ \E id \in RelatedIds, r \in RelationArgs : GetRelated(id, r)

SpecRelated == Init /\ [][NextRelated]_vars

\* The other endpoint of an edge incident to id.
OtherEnd(e, id) == IF e.from_id = id THEN e.to_id ELSE e.from_id

\* The result for the edges that pass wanted(_): for each such edge
\* incident to the memory, the memory at its other end unless that is the
\* memory itself.
C16_Post(wanted(_)) ==
    LET id == last.memoryId
        incident == {j \in 1..Len(edges) :
                        /\ edges[j].from_id = id \/ edges[j].to_id = id
                        /\ wanted(edges[j])
                        /\ OtherEnd(edges[j], id) # id}
    IN  /\ {x.edge : x \in last.ret} = incident
        /\ Cardinality(last.ret) = Cardinality(incident)
        /\ \A x \in last.ret :
               /\ x.entry.id = OtherEnd(edges[x.edge], id)
               /\ x.entry.id # id
               /\ \E i \in 1..Len(memories) :
                      /\ memories[i].id = x.entry.id
                      /\ x.entry.content = memories[i].content

PassedRelation(e) == last.relation.some => e.relation = last.relation.v

NonEmptyRelation(e) ==
    (last.relation.some /\ last.relation.v # "") => e.relation = last.relation.v

\* C16 as stated: getRelated(m, relation?) returns the memories at the other
\* end of the edges incident to m, in either direction, restricted to the
\* edges with the given relation whenever one is passed, and never m itself.
C16_RelatedAsStated ==
    last.op = "getRelated" => C16_Post(PassedRelation)

\* C16: getRelated(m, relation?) returns the memories at the other end of the
\* edges incident to m, in either direction, restricted to the edges with the
\* given relation when a non-empty one is passed (an empty string selects
\* every relation, like no argument), and never m itself, also with an edge
\* from m to m.
C16_RelatedBothDirections ==
    last.op = "getRelated" => C16_Post(NonEmptyRelation)

\* The lookup by relation on a memory that is the to_id of an edge with that
\* relation and has an edge to itself.
C16_Witness ==
    /\ last.op = "getRelated"
    /\ last.relation = Some("related")
    /\ Cardinality(last.ret) = 1
    /\ \E j \in 1..Len(edges) :
           /\ edges[j].to_id = last.memoryId
           /\ edges[j].from_id # last.memoryId
           /\ edges[j].relation = "related"
    /\ \E j \in 1..Len(edges) :
           edges[j].to_id = last.memoryId /\ edges[j].from_id = last.memoryId

\* C17: addEdge(fromId, toId, relation) with an edge of the same from_id,
\* to_id and relation already there, between two existing memories, changes
\* nothing, the number of edges included, and raises no error.
C17_AddEdgeIgnoresDuplicate ==
    [][(/\ last' # last \/ edges' # edges
        /\ last'.op = "addEdge"
        /\ memories' = memories
        /\ \E j \in 1..Len(edges) :
               edges[j] = [from_id |-> last'.fromId, to_id |-> last'.toId,
                           relation |-> last'.relation])
           => (edges' = edges /\ ~last'.threw)]_vars

\* The same call never raises an error.
C17_AddEdgeDuplicateNoError ==
    [][(/\ last' # last \/ edges' # edges
        /\ last'.op = "addEdge"
        /\ memories' = memories
        /\ \E j \in 1..Len(edges) :
               edges[j] = [from_id |-> last'.fromId, to_id |-> last'.toId,
                           relation |-> last'.relation])
           => ~last'.threw]_vars

(***************************************************************************)
(* The life cycle of a MemoryDB object.  The tables are in the file and    *)
(* outlive the connection.                                                 *)
(***************************************************************************)
\* A schema creation that builds the tables anew.
InitSchemaRecreates(table) == <<>>

\* MemoryDB.init on an existing file: every statement is CREATE ... IF NOT
\* EXISTS, the tables that exist are left as they are.
InitSchema(table) == table

\* MemoryDB.isOpen: the closed flag, then `SELECT 1` on the connection.
isOpen(h) == ~h.closed /\ h.conn = "open"

DbIsOpen ==
    /\ last' = [op |-> "isOpen", ret |-> isOpen(handle)]
    /\ UNCHANGED <<memories, edges, now, pending, handle>>
    /\ UNCHANGED <<profile, embVars>>

\* MemoryDB.close: nothing when closed; else db.close() and, whether it
\* throws or not, closed = true.  Closing a usable connection succeeds.
DbClose(closeThrows) ==
    /\ closeThrows => (~handle.closed /\ handle.conn = "invalid")
    /\ handle' = IF handle.closed THEN handle
                 ELSE [closed |-> TRUE,
                       conn |-> IF closeThrows THEN handle.conn ELSE "closed"]
    /\ last' = [op |-> "close", wasClosed |-> handle.closed,
                threw |-> closeThrows]
    /\ UNCHANGED <<memories, edges, now, pending>>
    /\ UNCHANGED <<profile, embVars>>

\* MemoryDB.reopen: the old connection is closed unless the flag says it is,
\* an error of that is swallowed; then a new connection is made and init
\* runs.  When `new Database` throws, the object keeps the old connection.
DbReopen(closeThrows, openThrows) ==
    /\ closeThrows => (~handle.closed /\ handle.conn = "invalid")
    /\ LET old == IF handle.closed \/ closeThrows THEN handle.conn ELSE "closed"
       IN  IF openThrows
           THEN /\ handle' = [handle EXCEPT !.conn = old]
                /\ UNCHANGED <<memories, edges>>
           ELSE /\ handle' = [closed |-> FALSE, conn |-> "open"]
                /\ memories' = InitSchema(memories)
                /\ edges' = InitSchema(edges)
    /\ last' = [op |-> "reopen", from |-> handle, closeThrew |-> closeThrows,
                threw |-> openThrows]
    /\ UNCHANGED <<now, pending>>
    /\ UNCHANGED <<profile, embVars>>

\* The connection becomes unusable under the program (the file handle is
\* invalidated): the case isOpen probes for.
Invalidate ==
    /\ handle.conn = "open"
    /\ handle' = [handle EXCEPT !.conn = "invalid"]
    /\ last' = [op |-> "invalidate"]
    /\ UNCHANGED <<memories, edges, now, pending>>
    /\ UNCHANGED <<profile, embVars>>

NextLife ==
    \/ \E id \in ImportIds, entry \in ImportEntries :
           isOpen(handle) /\ StoreRaw(id, entry)
    \/ \E f \in ImportIds, t \in ImportIds, r \in Relations :
           isOpen(handle) /\ AddEdge(f, t, r)
    \/ DbIsOpen
    \/ \E closeThrows \in BOOLEAN : DbClose(closeThrows)
    \/ \E closeThrows \in BOOLEAN, openThrows \in BOOLEAN :
           DbReopen(closeThrows, openThrows)
    \/ Invalidate

SpecLife == Init /\ [][NextLife]_vars

\* C18: isOpen() is false after close() and true after reopen(); close() on
\* a closed store changes nothing and raises no error; reopen() works from
\* the open and from the closed state, an error of closing the old
\* connection does not stop it, and it leaves the rows and edges that were
\* stored before as they were.  (reopen throws only when the file itself
\* cannot be opened.)
C18_CloseReopen ==
    [][/\ (last'.op = "close" /\ (last' # last \/ handle' # handle)) =>
              /\ ~isOpen(handle')
              /\ handle.closed => (handle' = handle /\ ~last'.threw)
              /\ memories' = memories /\ edges' = edges
       /\ (last'.op = "reopen" /\ (last' # last \/ handle' # handle)) =>
              /\ memories' = memories /\ edges' = edges
              /\ ~last'.threw => isOpen(handle')
       /\ (last'.op = "isOpen" /\ last' # last) =>
              /\ handle.closed => ~last'.ret
              /\ last'.ret => (~handle.closed /\ handle.conn = "open")]_vars

\* reopen has brought back a store with rows whose old connection was
\* unusable and threw on close.
C18_Witness ==
    /\ last.op = "reopen"
    /\ last.closeThrew
    /\ ~last.threw
    /\ isOpen(handle)
    /\ Len(memories) = 2
    /\ Len(edges) > 0

(***************************************************************************)
(* MemoryProvider.indexWorkspace.  The call is suspended between files;    *)
(* its local variables (uris, the loop position, indexed, skipped) are the *)
(* pending record of its caller.  The embed call inside store is taken by  *)
(* its outcome: its steps are those of EmbedBegin .. ExtractSettle.        *)
(***************************************************************************)
\* opts?.maxFiles ?? 200, scaled down.
MaxFiles == 2

FileNames == <<"a.ts", "b.ts", "c.ts", "d.ts", "e.ts">>

\* What findFiles enumerates: fewer files than maxFiles, as many, or more.
Enumerations == {SubSeq(FileNames, 1, n) : n \in 0..(MaxFiles + 1)}

\* uris.slice(0, maxFiles)
Slice(uris) == SubSeq(uris, 1, IF Len(uris) < MaxFiles THEN Len(uris) ELSE MaxFiles)

\* The steps of the loop body that can throw, and "ok".
FileOutcomes == {"ok", "open", "init", "embed", "store"}

\* The arguments of the store call for a file.
IndexArgs(file) ==
    [content |-> file, source |-> Some("vscode:index"),
     tags |-> Some(<<"project-index">>), category |-> Some("architecture"),
     dedupeThreshold |-> Absent]

IndexCallers == {"h1"}

\* The vector the embedding chain gives for the text of uris[k]: the second
\* file is a near duplicate of the first, the third is not.
FileVector(k) == <<<<1, 0>>, <<4, 1>>, <<1, 1>>>>[((k - 1) % 3) + 1]

\* A loop body whose failure is counted nowhere.
AfterFileDropsFailure(p, outcome) ==
    [p EXCEPT !.i = @ + 1,
              !.indexed = IF outcome = "ok" THEN @ + 1 ELSE @,
              !.outcomes = Append(@, outcome)]

\* The locals after one pass of the loop body: indexed++ at the end of the
\* try block, skipped++ in the catch.
AfterFile(p, outcome) ==
    [p EXCEPT !.i = @ + 1,
              !.indexed = IF outcome = "ok" THEN @ + 1 ELSE @,
              !.skipped = IF outcome = "ok" THEN @ ELSE @ + 1,
              !.outcomes = Append(@, outcome)]

\* indexWorkspace up to the loop: ensureInitialized, whose error rejects the
\* call, then the enumeration.
IndexBegin(c, uris, cfg, fault) ==
    /\ provider.instance
    /\ pending[c] = Idle
    /\ ProviderEnsure(cfg, fault)
    /\ IF NeedsInit /\ fault # "none"
       THEN /\ last' = [op |-> "indexWorkspace", caller |-> c, threw |-> TRUE]
            /\ UNCHANGED pending
       ELSE /\ pending' = [pending EXCEPT ![c] =
                  [op |-> "indexWorkspace", uris |-> uris, i |-> 0,
                   indexed |-> 0, skipped |-> 0, outcomes |-> <<>>]]
            /\ UNCHANGED last
    /\ UNCHANGED <<memories, edges, now, handle, profile, promises, calls>>

\* MemoryDB.store for the file, without another writer in between.
IndexStore(a, embedding) ==
    LET existing == vectorSearch(memories, embedding, 1, DedupeThreshold(a))
    IN  IF Len(existing) > 0
        THEN LET ex == existing[1].entry
             IN  memories' = UpdateRow(memories, ex.id,
                     LAMBDA row : MergeRow(row, a.content, embedding, now, a, ex))
        ELSE /\ HasRoom
             /\ \E id \in randomUUID(memories) :
                    memories' = Append(memories,
                        RowOfEntry(NewEntry(id, a.content, embedding, now, a)))

\* One pass of the loop body for uris[i]: openTextDocument, then store
\* (ensureInitialized, embed, MemoryDB.store); the first step that throws
\* ends the pass in the catch.
IndexFile(c, outcome, cfg, fault) ==
    /\ pending[c].op = "indexWorkspace"
    /\ pending[c].i < Len(Slice(pending[c].uris))
    /\ (outcome = "init") = (NeedsInit /\ fault # "none")
    /\ IF outcome = "open"
       THEN UNCHANGED <<provider, chains>>
       ELSE ProviderEnsure(cfg, fault)
    /\ IF outcome = "ok"
       THEN IndexStore(IndexArgs(pending[c].uris[pending[c].i + 1]),
                       FileVector(pending[c].i + 1))
       ELSE UNCHANGED memories
    /\ pending' = [pending EXCEPT ![c] = AfterFile(pending[c], outcome)]
    /\ UNCHANGED <<edges, now, last, handle, profile, promises, calls>>

\* The loop is over: return { indexed, skipped }.
IndexReturn(c) ==
    /\ pending[c].op = "indexWorkspace"
    /\ pending[c].i = Len(Slice(pending[c].uris))
    /\ last' = [op |-> "indexWorkspace", caller |-> c, threw |-> FALSE,
                uris |-> pending[c].uris, outcomes |-> pending[c].outcomes,
                ret |-> [indexed |-> pending[c].indexed,
                         skipped |-> pending[c].skipped]]
    /\ pending' = [pending EXCEPT ![c] = Idle]
    /\ UNCHANGED <<memories, edges, now, handle>>
    /\ UNCHANGED <<profile, embVars>>

NoOverride == [primary |-> FALSE, fallback |-> FALSE]

NextIndex ==
    \/ \E f \in Faults : GetInstance(NoOverride, f)
    \/ \E c \in IndexCallers, uris \in Enumerations, f \in Faults :
           IndexBegin(c, uris, NoOverride, f)
    \/ \E c \in IndexCallers, o \in FileOutcomes, f \in Faults :
           IndexFile(c, o, NoOverride, f)
    \/ \E c \in IndexCallers : IndexReturn(c)
    \/ Close

SpecIndex == Init /\ [][NextIndex]_vars

\* The number of passes with, or without, outcome "ok".
CountOutcomes(outcomes, ok) ==
    Cardinality({k \in 1..Len(outcomes) : (outcomes[k] = "ok") = ok})

\* C19: indexWorkspace goes through every one of the first maxFiles
\* enumerated files whatever the open, embed and store steps of each file
\* do; the counts it returns add up to the number of files processed,
\* indexed is the number of files whose store call succeeded and skipped
\* the number of files where a step threw.
C19_IndexNeverAborts ==
    /\ \A c \in IndexCallers :
           pending[c].op = "indexWorkspace" =>
               /\ pending[c].indexed + pending[c].skipped = pending[c].i
               /\ pending[c].i <= Len(Slice(pending[c].uris))
    /\ (last.op = "indexWorkspace" /\ ~last.threw) =>
           /\ Len(last.outcomes) = Len(Slice(last.uris))
           /\ last.ret.indexed + last.ret.skipped = Len(Slice(last.uris))
           /\ last.ret.indexed = CountOutcomes(last.outcomes, TRUE)
           /\ last.ret.skipped = CountOutcomes(last.outcomes, FALSE)

\* A run over more files than maxFiles in which the first file failed and a
\* later one was stored.
C19_Witness ==
    /\ last.op = "indexWorkspace"
    /\ ~last.threw
    /\ Len(last.uris) > MaxFiles
    /\ last.outcomes[1] # "ok"
    /\ last.ret.indexed > 0
    /\ Len(memories) > 0

(***************************************************************************)
(* The length of the vectors of DualEmbeddings.embed.  A backend response  *)
(* is Absent when the backend's request (or its set-up) throws, else       *)
(* Some(v) with v the vector the backend answered.                         *)
(***************************************************************************)
\* TransformersEmbeddings.dimension, 384, scaled down.
ModelDimension == 3

\* `dimension: 384` in MemoryProvider.ensureInitialized, kept by
\* DualEmbeddings as _dimension and handed to both overrides.
ConfiguredDimension == ModelDimension

Ramp(n) == [k \in 1..n |-> k]

Fall(n) == [k \in 1..n |-> 0 - k]

Zeros(n) == [k \in 1..n |-> 0]

\* What a backend can answer: shorter than, as long as and longer than the
\* dimension, with positive, negative and zero components.
RawVectors ==
    {Ramp(n) : n \in 0..(ModelDimension + 1)}
        \cup {Fall(n) : n \in 1..(ModelDimension + 1)}
        \cup {Zeros(n) : n \in 1..(ModelDimension + 1)}

Responses == {Absent} \cup {Some(v) : v \in RawVectors}

\* A reconciliation that hands the vector on as it is.
NoReconcile(vec, d) == vec

\* [...vec, ...zeros] when shorter than d, else vec.slice(0, d).
PadOrSlice(vec, d) ==
    IF Len(vec) < d THEN vec \o Zeros(d - Len(vec)) ELSE SubSeq(vec, 1, d)

\* OpenAIEmbeddings.embed: the response is padded or cut to this.dimension
\* unless it has that length.
OpenAIEmbed(resp, d) ==
    IF ~resp.some THEN Absent
    ELSE IF Len(resp.v) # d THEN Some(PadOrSlice(resp.v, d))
    ELSE resp

\* OllamaEmbeddings.embed: data.embedding as it came.
OllamaEmbed(resp) == resp

\* TransformersEmbeddings.embed: throws unless the output has 384 components.
TransformersEmbed(resp) ==
    IF resp.some /\ Len(resp.v) = ModelDimension THEN resp ELSE Absent

\* DualEmbeddings.embed as a function of the configuration and of what the
\* three backends answer: the tier that produced the result and the result
\* (Absent: "All embedding providers failed").
DualEmbed(cfg, resp) ==
    LET d == ConfiguredDimension
        p == OpenAIEmbed(resp.primary, d)
        f == OllamaEmbed(resp.fallback)
    IN  IF cfg.primary /\ p.some
        THEN [from |-> "primary", raw |-> resp.primary, ret |-> p]
        ELSE IF cfg.fallback /\ f.some
        THEN [from |-> "fallback", raw |-> resp.fallback,
              ret |-> Some(PadOrSlice(f.v, d))]
        ELSE [from |-> "default", raw |-> resp.default,
              ret |-> TransformersEmbed(resp.default)]

Embed(cfg, resp) ==
    /\ last' = [op |-> "embed", cfg |-> cfg] @@ DualEmbed(cfg, resp)
    /\ UNCHANGED <<memories, edges, now, pending, handle>>
    /\ UNCHANGED <<profile, embVars>>

NextDimension ==
    \E cfg \in Configs, resp \in [primary : Responses, fallback : Responses,
                                  default : Responses] :
        Embed(cfg, resp)

SpecDimension == Init /\ [][NextDimension]_vars

\* C20: a vector returned by DualEmbeddings.embed has exactly the configured
\* number of components, whichever tier produced it; the fallback's answer
\* is followed by zeros when it is shorter and cut to its first components
\* when it is longer, and the components both have are equal.
C20_ReturnedLength ==
    (last.op = "embed" /\ last.ret.some) =>
        LET vec == last.ret.v
            raw == last.raw.v
        IN  /\ Len(vec) = ConfiguredDimension
            /\ last.from = "fallback" =>
                  /\ \A k \in 1..Len(vec) :
                         vec[k] = IF k <= Len(raw) THEN raw[k] ELSE 0
                  /\ Len(raw) >= Len(vec) => vec = SubSeq(raw, 1, Len(vec))

\* The fallback answered a shorter vector after the primary had failed.
C20_Witness ==
    /\ last.op = "embed"
    /\ last.cfg.primary
    /\ last.from = "fallback"
    /\ last.ret.some
    /\ Len(last.raw.v) < ConfiguredDimension
    /\ Len(last.raw.v) > 0
    /\ last.ret.v[1] # 0

(***************************************************************************)
(* The profile table.  Its primary key is id; both statements that insert  *)
(* write the id 'user_profile'.                                            *)
(***************************************************************************)
\* The cap of the counter in the model.
MaxCaptures == 3

ProfileKey == "user_profile"

\* The ProfileData values setProfile is called with.
ProfileInputs ==
    [summary : {"", "likes tabs"}, facts : {<<>>, <<"uses vim">>},
     updated_at : {0, 1}, capture_count : 0..MaxCaptures]

\* SELECT * FROM profile WHERE id = 'user_profile', as getProfile returns
\* it: null (Absent) without a row.
getProfile(table) ==
    LET rows == {r \in table : r.id = ProfileKey}
    IN  IF rows = {} THEN Absent
        ELSE LET row == CHOOSE r \in rows : TRUE
             IN  Some([summary |-> row.summary, facts |-> row.facts,
                       updated_at |-> row.updated_at,
                       capture_count |-> row.capture_count])

\* INSERT OR REPLACE: the row with the same primary key goes, the new row
\* comes.
InsertOrReplace(table, row) == {r \in table : r.id # row.id} \cup {row}

\* (profile?.capture_count ?? 0) + 1
NewCount(p) == (IF p.some THEN p.v.capture_count ELSE 0) + 1

GetProfile ==
    /\ last' = [op |-> "getProfile", ret |-> getProfile(profile)]
    /\ UNCHANGED <<memories, edges, now, pending, handle, profile>>
    /\ UNCHANGED embVars

SetProfile(p) ==
    /\ profile' = InsertOrReplace(profile,
           [id |-> ProfileKey, summary |-> p.summary, facts |-> p.facts,
            updated_at |-> p.updated_at, capture_count |-> p.capture_count])
    /\ last' = [op |-> "setProfile", arg |-> p]
    /\ UNCHANGED <<memories, edges, now, pending, handle>>
    /\ UNCHANGED embVars

IncrementCaptureCount ==
    LET p == getProfile(profile)
        newCount == NewCount(p)
    IN  /\ newCount <= MaxCaptures
        /\ profile' =
              IF p.some
              THEN {IF r.id = ProfileKey
                    THEN [r EXCEPT !.capture_count = newCount] ELSE r :
                    r \in profile}
              ELSE profile \cup
                     {[id |-> ProfileKey, summary |-> "", facts |-> <<>>,
                       updated_at |-> now, capture_count |-> newCount]}
        /\ last' = [op |-> "incrementCaptureCount", was |-> p,
                    ret |-> newCount]
        /\ UNCHANGED <<memories, edges, now, pending, handle>>
        /\ UNCHANGED embVars

NextProfile ==
    \/ GetProfile
    \/ \E p \in ProfileInputs : SetProfile(p)
    \/ IncrementCaptureCount
    \/ Tick

SpecProfile == Init /\ [][NextProfile]_vars

\* The capture count the table holds, 0 without a row.
CaptureCount(table) ==
    LET p == getProfile(table) IN IF p.some THEN p.v.capture_count ELSE 0

\* C21: over setProfile and incrementCaptureCount the profile table has at
\* most one row, with key 'user_profile', and its capture_count never
\* decreases; incrementCaptureCount raises it by exactly 1 and returns the
\* new value, making the row with count 1 when there is none.
C21_ProfileCounter ==
    [][/\ Cardinality(profile') <= 1
       /\ \A r \in profile' : r.id = ProfileKey
       /\ CaptureCount(profile') >= CaptureCount(profile)
       /\ (last'.op = "incrementCaptureCount" /\ profile' # profile) =>
              /\ CaptureCount(profile') = CaptureCount(profile) + 1
              /\ last'.ret = CaptureCount(profile')
              /\ profile = {} => CaptureCount(profile') = 1]_vars

\* The same without the monotonicity of the count under setProfile: one row
\* at most, and incrementCaptureCount adds exactly 1 and returns the result.
C21_SingletonAndIncrement ==
    [][/\ Cardinality(profile') <= 1
       /\ \A r \in profile' : r.id = ProfileKey
       /\ (last'.op = "incrementCaptureCount" /\ profile' # profile) =>
              /\ CaptureCount(profile') = CaptureCount(profile) + 1
              /\ last'.ret = CaptureCount(profile')
              /\ profile = {} => CaptureCount(profile') = 1]_vars

(***************************************************************************)
(* cosineSimilarity on its own, over vectors of every length up to MaxLen  *)
(* with negative, zero and positive components.                            *)
(***************************************************************************)
MaxLen == 2

Components == {0 - 1, 0, 2}

CosineVectors == UNION {[1..n -> Components] : n \in 0..MaxLen}

Cosine(a, b) ==
    /\ last' = [op |-> "cosineSimilarity", a |-> a, b |-> b,
                ret |-> cosineSimilarity(a, b)]
    /\ UNCHANGED <<memories, edges, now, pending, handle, profile>>
    /\ UNCHANGED embVars

NextCosine == \E a \in CosineVectors, b \in CosineVectors : Cosine(a, b)

SpecCosine == Init /\ [][NextCosine]_vars

\* The squared magnitude of v over its first n components.
Magnitude2(v, n) == SumTo([i \in 1..n |-> v[i] * v[i]], n)

\* What the claim says of one call but for the range of the score: the
\* result is that of the shared prefixes, and is exactly 0 when one of the
\* two has zero magnitude over the shared prefix (the empty prefix too).
CosineShape(c) ==
    LET len == Min(Len(c.a), Len(c.b))
    IN  /\ c.ret = cosineSimilarity(SubSeq(c.a, 1, len), SubSeq(c.b, 1, len))
        /\ c.ret.nn > 0
        /\ (Magnitude2(c.a, len) = 0 \/ Magnitude2(c.b, len) = 0) =>
               c.ret = ZeroScore

SourceArgs == {"", "sync", "vscode:chat"}

NextSource ==
    \/ \E id \in ImportIds, entry \in ImportEntries : StoreRaw(id, entry)
    \/ \E f \in ImportIds, t \in ImportIds, r \in Relations : AddEdge(f, t, r)
    \/ \E src \in SourceArgs : DeleteBySource(src)

SpecSource == Init /\ [][NextSource]_vars

\* The rows of a table, as a set.
Rows(m) == {m[i] : i \in 1..Len(m)}

\* C23: deleteBySource(source) removes exactly the memories whose source is
\* the given one, leaves the others as they were and in their order, and
\* returns the number of memories removed; when no memory has the source it
\* returns 0 and changes neither memories nor edges.
C23_DeleteBySourceExact ==
    [][\A src \in SourceArgs :
          DeleteBySource(src) =>
              LET hit == {r \in Rows(memories) : r.source = src}
              IN  /\ Rows(memories') = Rows(memories) \ hit
                  /\ Len(memories') = Len(memories) - Cardinality(hit)
                  /\ \A i, j \in 1..Len(memories) :
                        (i < j /\ memories[i] \notin hit /\ memories[j] \notin hit)
                        => \E k, l \in 1..Len(memories') :
                              /\ k < l
                              /\ memories'[k] = memories[i]
                              /\ memories'[l] = memories[j]
                  /\ last'.ret = Cardinality(hit)
                  /\ hit = {} => (last'.ret = 0 /\ memories' = memories
                                  /\ edges' = edges)]_vars

\* One of two memories was removed by its source, with the edge between
\* them; the memory of the other source is still there.
C23_Witness ==
    /\ last.op = "deleteBySource"
    /\ last.ret = 1
    /\ last.edgesBefore > 0
    /\ Len(memories) = 1
    /\ memories[1].source # last.source

(***************************************************************************)
(* Store calls of two handlers.  MemoryDB.store is suspended at the await  *)
(* of its scan, so the scan of one call can come before the write of the   *)
(* other.                                                                  *)
(***************************************************************************)
NextOverlap ==
    \/ \E c \in Callers, a \in StoreArgs, v \in Vectors : StoreBegin(c, a, v)
    \/ \E c \in Callers : StoreFinish(c)

SpecOverlap == Init /\ [][NextOverlap]_vars

\* C24: dedup is atomic under overlapping calls: a store call never inserts
\* a new record while the table holds a record that scores >= its
\* dedupeThreshold against its embedding, so two overlapping calls with
\* matching embeddings end with one record for them.
C24_OverlappingStoresMerge ==
    [][\A c \in Callers :
          (StoreFinish(c) /\ ~last'.ret.isDuplicate) =>
              Matching(memories, pending[c].embedding,
                       DedupeThreshold(pending[c].args)) = {}]_vars

\* Without overlap the insert is made only when nothing matches.
C24_SequentialStoresMerge ==
    [][\A c \in Callers :
          (StoreFinish(c) /\ ~pending[c].overlapped /\ ~last'.ret.isDuplicate) =>
              Matching(memories, pending[c].embedding,
                       DedupeThreshold(pending[c].args)) = {}]_vars

(***************************************************************************)
(* Store calls one after the other, all with the same dedupeThreshold.     *)
(***************************************************************************)
SameThresholdArgs == {a \in StoreArgs : a.dedupeThreshold = Some(Milli(800))}

NextDedup ==
    \/ \E a \in SameThresholdArgs, v \in Vectors : StoreBegin("h1", a, v)
    \/ StoreFinish("h1")
    \/ Tick

SpecDedup == Init /\ [][NextDedup]_vars

\* C25: after store calls that do not overlap and use one dedupeThreshold,
\* from an empty store, no two distinct records have embeddings that score
\* >= the threshold against each other.
C25_NoNearDuplicates ==
    pending["h1"] = Idle =>
        \A i, j \in 1..Len(memories) :
            i # j => ~ScoreGE(RowScore(memories, i,
                                       decodeEmbedding(memories[j].embedding)),
                              Milli(800))

\* What holds instead: a record is inserted as new only when no record
\* scores >= the threshold against it.
C25_InsertOnlyWhenNoMatch ==
    [][(StoreFinish("h1") /\ ~last'.ret.isDuplicate) =>
           Matching(memories, pending["h1"].embedding, Milli(800)) = {}]_vars

\* The row of the table with the given id, as the entry a reader decodes.
PersistedEntry(m, id) ==
    LET row == m[CHOOSE i \in 1..Len(m) : m[i].id = id]
    IN  [row EXCEPT !.embedding = decodeEmbedding(row.embedding)]

\* C26: the MemoryEntry that store returns equals the row persisted for its
\* id in every field (content, embedding, created_at, source, tags,
\* category), when a record is inserted and when a record is merged.
C26_ReturnedEntryIsPersisted ==
    [][\A c \in Callers :
          (StoreFinish(c) /\ ~pending[c].overlapped) =>
              /\ last'.ret.entry.id \in RowIds(memories')
              /\ last'.ret.entry = PersistedEntry(memories', last'.ret.entry.id)]_vars

\* The same for the insert branch alone, and for the fields the merge
\* branch returns from its arguments.
C26_ReturnedEntryOfInsert ==
    [][\A c \in Callers :
          (StoreFinish(c) /\ ~pending[c].overlapped) =>
              LET entry == last'.ret.entry
                  row == PersistedEntry(memories', entry.id)
              IN  /\ entry.id \in RowIds(memories')
                  /\ ~last'.ret.isDuplicate => entry = row
                  /\ entry.content = row.content
                  /\ entry.embedding = row.embedding
                  /\ entry.created_at = row.created_at]_vars

\* C27: for every boostCategories map, multipliers below 1 included, every
\* entry vectorSearchBoosted returns has a reported score of at least
\* minScore and at most 1.0.
C27_BoostedScoreInRange ==
    last.op = "vectorSearchBoosted" =>
        \A i \in 1..Len(last.ret) :
            /\ ScoreGE(last.ret[i].score, last.minScore)
            /\ ScoreGE(OneScore, last.ret[i].score)

\* The upper end alone.
C27_BoostedScoreAtMostOne ==
    last.op = "vectorSearchBoosted" =>
        \A i \in 1..Len(last.ret) : ScoreGE(OneScore, last.ret[i].score)

(***************************************************************************)
(* deleteByQuery on stores with up to one memory more than the scan of     *)
(* deleteByQuery asks for.  The stores are those that storeRaw and         *)
(* setEmbedding leave for as many ids of UUID shape, each with a content   *)
(* of its own.                                                             *)
(***************************************************************************)
ForgetIds == <<"u1", "u2", "u3", "u4", "u5", "u6", "u7", "u8", "u9", "u10", "u11">>

ForgetQuery == <<1, 0>>

\* n memories that score 1.0 against the query, then k that score 0.
ForgetTable(n, k) ==
    [i \in 1..(n + k) |->
        [id |-> ForgetIds[i], content |-> ForgetIds[i], created_at |-> 0,
         source |-> "", tags |-> <<>>, category |-> "other",
         embedding |-> encodeEmbedding(IF i <= n THEN ForgetQuery ELSE <<0, 1>>)]]

InitForget ==
    /\ memories \in
           {ForgetTable(q[1], q[2]) :
                q \in {r \in (0..(DeleteByQueryLimit + 1)) \X (0..1) :
                          r[1] + r[2] <= Len(ForgetIds)}}
    /\ edges = <<>>
    /\ now = 0
    /\ pending = [c \in Callers |-> Idle]
    /\ last = [op |-> "none"]
    /\ handle = [closed |-> FALSE, conn |-> "open"]
    /\ profile = {}
    /\ EmbInit

NextForget ==
    \/ \E t \in DeleteThresholds : DeleteByQueryBegin("h1", ForgetQuery, t)
    \/ DeleteByQueryFinish("h1")
    \/ Tick

SpecForget == InitForget /\ [][NextForget]_vars

\* C28: after a deleteByQuery(e, threshold) that no other call overlaps, no
\* record left in the store has an embedding that scores >= threshold
\* against e, however many records matched before the call.
C28_NoMatchRemains ==
    [][(DeleteByQueryFinish("h1") /\ ~pending["h1"].overlapped) =>
           Matching(memories', pending["h1"].embedding,
                    pending["h1"].threshold) = {}]_vars

\* The same for stores with at most as many matches as the scan asks for.
C28_NoMatchRemainsUpToLimit ==
    [][(/\ DeleteByQueryFinish("h1")
        /\ ~pending["h1"].overlapped
        /\ Cardinality(Matching(memories, pending["h1"].embedding,
                                pending["h1"].threshold)) <= DeleteByQueryLimit) =>
           Matching(memories', pending["h1"].embedding,
                    pending["h1"].threshold) = {}]_vars

(***************************************************************************)
(* The writers of the memories table together with addEdge.                *)
(***************************************************************************)
NextIds ==
    \/ \E a \in PlainArgs, v \in GraphVectors : StoreBegin("h1", a, v)
    \/ StoreFinish("h1")
    \/ \E id \in ImportIds, entry \in RawEntries : StoreRaw(id, entry)
    \/ \E id \in ImportIds : SetEmbedding(id, <<1, 0>>)
    \/ \E f \in GraphIds, t \in GraphIds, r \in Relations : AddEdge(f, t, r)

SpecIds == Init /\ [][NextIds]_vars

\* C29: no two memory rows share an id; store (merging or inserting),
\* storeRaw and setEmbedding leave the id of every existing row as it is;
\* a store merge leaves the edges as they are, those of the merged record
\* included.
C29_IdsUniqueAndFixed ==
    [][/\ Cardinality(RowIds(memories')) = Len(memories')
       /\ Len(memories') >= Len(memories)
       /\ \A i \in 1..Len(memories) : memories'[i].id = memories[i].id
       /\ (StoreFinish("h1") /\ last'.ret.isDuplicate) =>
              /\ edges' = edges
              /\ last'.ret.updatedId.v \in RowIds(memories')]_vars

\* A merge into a record that has an edge, beside a record that storeRaw
\* made.
C29_Witness ==
    /\ last.op = "store"
    /\ last.ret.isDuplicate
    /\ Len(memories) = 2
    /\ \E i \in 1..Len(edges) :
          edges[i].from_id = last.ret.updatedId.v

(***************************************************************************)
(* MemoryProvider.getInstance called again.                                *)
(***************************************************************************)
\* getInstance when _instance is set: the `if` is skipped and the instance
\* is returned as it is.
GetInstanceAgain ==
    /\ provider.instance
    /\ last' = [op |-> "getInstance", ret |-> provider]
    /\ UNCHANGED <<memories, edges, now, pending, handle, profile>>
    /\ UNCHANGED embVars

NextInstance ==
    \/ \E cfg \in EmbedConfigs, f \in Faults : GetInstance(cfg, f)
    \/ GetInstanceAgain
    \/ \E cfg \in EmbedConfigs, f \in Faults : StatusRefresh(cfg, f)
    \/ Close
    \/ ProviderCount
    \/ \E id \in FacadeIds, entry \in RawEntries : StoreRaw(id, entry)

SpecInstance == Init /\ [][NextInstance]_vars

\* C30: every MemoryProvider that getInstance returns has been initialized
\* with success: after a first call that failed in ensureInitialized, a
\* later call does not return a provider whose store is unset.
C30_ReturnedInstanceInitialized ==
    last.op = "getInstance" =>
        /\ last.ret.initialized
        /\ last.ret.db # "null"

\* What holds: a provider whose first getInstance succeeded is returned
\* with its store set (open, or closed by close()).
C30_ReturnedAfterSuccess ==
    [][(GetInstanceAgain /\ provider.initialized) =>
           (last'.ret.initialized /\ last'.ret.db # "null")]_vars

====
